---------------------------- MODULE Spec2Model ----------------------------
(***************************************************************************)
(* nbsafety: dependency tracking between notebook cells.                   *)
(*                                                                         *)
(* The model follows NotebookSafety (src/nbsafety/safety.py), Scope and    *)
(* NamespaceScope (src/nbsafety/data_model/scope.py) and TraceStatement    *)
(* (src/nbsafety/tracing/trace_stmt.py).  The notebook runs in the test    *)
(* configuration (store_history = False), where the execution counter is   *)
(* the field _cell_counter.  DataSymbol (data_model/data_symbol.py), the   *)
(* live/dead reference analysis (nbsafety/analysis) and the tracer are not *)
(* part of the sources at hand; what the model needs of them is taken from *)
(* the design document and is marked as such where it is defined.          *)
(*                                                                         *)
(* A unit (cell) is one statement: an assignment  target = f(reads)  or an *)
(* expression statement reading some names.  A Symbol is identified by the *)
(* access path under which its scope table holds it.                       *)
(***************************************************************************)
EXTENDS Integers, FiniteSets, Sequences, TLC

\* ------------------------------------------------------------------------
\* Bounds of the model
\* ------------------------------------------------------------------------

\* number of units that run freely after a specification's setup units
MaxFree == 2

\* ------------------------------------------------------------------------
\* Static structure: symbols and unit sources
\* ------------------------------------------------------------------------

NoSym == "<no symbol>"
NoCode == "<none>"
NoCell == "<no cell>"
Placeholder == "None"

FlatSyms == {"v", "w", "u", "a"}
DictSyms == {"d", "d[x]", "d[x][y]", "t"}
DotSyms == {"d", "d.x", "d.y", "d.x.a", "d.y.a", "x", "y"}
Syms == FlatSyms \cup DictSyms \cup DotSyms

\* the symbol of the container whose namespace holds s (NoSym: global scope)
NsParent(s) ==
    CASE s \in {"d.x", "d.y", "d[x]"} -> "d"
      [] s = "d.x.a" -> "d.x"
      [] s = "d.y.a" -> "d.y"
      [] s = "d[x][y]" -> "d[x]"
      [] OTHER -> NoSym

\* the name under which the scope table holds s
BareName(s) ==
    CASE s \in {"d.x", "d[x]"} -> "x"
      [] s \in {"d.y", "d[x][y]"} -> "y"
      [] s \in {"d.x.a", "d.y.a"} -> "a"
      [] OTHER -> s

IsSubscriptSym(s) == s \in {"d[x]", "d[x][y]"}

\* the symbol a store through this unit binds (NoSym: expression statement)
Target(src) ==
    CASE src \in {"v = 1", "v = 2"} -> "v"
      [] src = "w = v" -> "w"
      [] src \in {"u = w", "u = 1"} -> "u"
      [] src \in {"a = u", "a = a + 1", "a = a + u"} -> "a"
      [] src \in {"d = {}", "d = DotDict()"} -> "d"
      [] src = "d['x'] = {}" -> "d[x]"
      [] src \in {"d['x']['y'] = 5", "d['x']['y'] = 9"} -> "d[x][y]"
      [] src = "t = d['x']['y'] + 1" -> "t"
      [] src = "d.x = DotDict()" -> "d.x"
      [] src \in {"d.y = DotDict()", "d.y = 10"} -> "d.y"
      [] src = "d.x.a = 5" -> "d.x.a"
      [] src \in {"d.y.a = 7", "d.y.a = 9"} -> "d.y.a"
      [] src = "x = d.x.a + 9" -> "x"
      [] src \in {"y = d.y.a + 9", "y = 1"} -> "y"
      [] OTHER -> NoSym

\* the symbol a del statement deletes (NoSym: not a del statement)
DelTarget(src) ==
    CASE src = "del v" -> "v"
      [] src = "del d.y" -> "d.y"
      [] src = "del d['x']" -> "d[x]"
      [] OTHER -> NoSym

\* the access paths the unit loads
Reads(src) ==
    CASE src \in {"w = v", "print(v)"} -> {"v"}
      [] src = "u = w" -> {"w"}
      [] src \in {"a = u", "print(u)"} -> {"u"}
      [] src \in {"a = a + 1", "print(a)"} -> {"a"}
      [] src = "a = a + u" -> {"a", "u"}
      [] src = "print(u, v)" -> {"u", "v"}
      [] src = "t = d['x']['y'] + 1" -> {"d[x][y]"}
      [] src = "print(t)" -> {"t"}
      [] src \in {"x = d.x.a + 9", "print(d.x.a)"} -> {"d.x.a"}
      [] src = "y = d.y.a + 9" -> {"d.y.a"}
      [] src = "print(x)" -> {"x"}
      [] src = "print(y)" -> {"y"}
      [] src = "print(d.x)" -> {"d.x"}
      [] src = "print(d)" -> {"d"}
      [] OTHER -> {}

\* whether the value the unit stores is a container (dict, DotDict)
StoresContainer(src) ==
    src \in {"d = {}", "d = DotDict()", "d['x'] = {}", "d.x = DotDict()", "d.y = DotDict()"}

\* ast.parse succeeds on the filtered source
Parses(src) == src # "v = ("

\* ------------------------------------------------------------------------
\* Helpers
\* ------------------------------------------------------------------------

MaxOf(S) == IF S = {} THEN 0 ELSE CHOOSE m \in S : \A n \in S : m >= n

Perms(S) == {f \in [1..Cardinality(S) -> S] : \A i, j \in DOMAIN f : f[i] = f[j] => i = j}


RECURSIVE AncClose(_, _)
AncClose(par, X) ==
    LET Y == X \cup UNION {par[x] : x \in X} \cup ({NsParent(x) : x \in X} \ {NoSym})
    IN IF Y = X THEN X ELSE AncClose(par, Y)

\* the symbols of Syms held in the namespaces below s
RECURSIVE NsDescendants(_)
NsDescendants(s) ==
    LET kids == {c \in Syms : NsParent(c) = s}
    IN kids \cup UNION {NsDescendants(c) : c \in kids}

\* the tokens of the access path of s, outermost first
RECURSIVE ChainOf(_)
ChainOf(s) == IF NsParent(s) = NoSym THEN <<s>> ELSE Append(ChainOf(NsParent(s)), s)

\* ------------------------------------------------------------------------
\* State
\* ------------------------------------------------------------------------

\* --- object identities, scopes and DataSymbols of the identity-keyed tables ---
Objs == 1 .. (4 + 2 * MaxFree)      \* identities of the objects the units allocate
MinusOne == -1                      \* id(-1), the object make_child_scope hands a class scope
IntObj == 0                         \* the identity of a small integer
NoObj == -2
NoScope == -2
GlobalScope == 0
ObjKeys == Objs \cup {MinusOne, IntObj}
GlobalNames == {"Foo", "foo", "l"}
MemberNames == {"a", "[0]", "[1]"}
SymKeys == (Objs \cup {GlobalScope}) \X (GlobalNames \cup MemberNames)
IsSubscriptName(name) == name \in {"[0]", "[1]"}
IndexName(n) == IF n = 0 THEN "[0]" ELSE "[1]"   \* the lists of the sessions hold at most two elements
NoneDsym == <<-3, "None">>                       \* None where a DataSymbol is expected

NoScopeRecord ==
    [obj_id |-> NoObj, tombstone |-> FALSE, members |-> {}, cloned_from |-> NoScope, weak |-> FALSE]

\* --- the scope tree -------------------------------------------------------
\* the most DataSymbols a session creates in the scope tree after its setup
MaxSyms == 2

\* the global scope, the namespace of class Foo, the scope of a call of its
\* method f and of a function g nested in f, the namespace of the instance foo
\* (a clone of Foo's) and the namespace of foo's attribute b
ScopeNames == {"<module>", "Foo", "Foo.f", "Foo.f.g", "foo", "foo.b"}
NoneValue == "None"

\* Scope.parent_scope
parent_scope(s) ==
    CASE s = "<module>" -> NoneValue
      [] s \in {"Foo", "foo"} -> "<module>"
      [] s = "Foo.f" -> "Foo"
      [] s = "Foo.f.g" -> "Foo.f"
      [] s = "foo.b" -> "foo"

\* Scope.is_namespace_scope
is_namespace_scope(s) == s \in {"Foo", "foo", "foo.b"}

\* NamespaceScope.cloned_from
ClonedFrom(s) == IF s = "foo" THEN "Foo" ELSE NoneValue

\* Scope.is_global
is_global(s) == parent_scope(s) = NoneValue

\* member names: the string 'a' and the integer 0
TableNames == {"a", "0"}
isinstance_str(name) == name # "0"

\* DataSymbolType
SymbolTypes == {"function", "import", "class", "subscript", "anonymous", "default"}

\* an empty table; 0 stands for no DataSymbol
EmptyTable == [name \in TableNames |-> 0]

\* the keyword arguments of an upsert: overwrite, is_subscript, is_function_def,
\* is_import, is_anonymous, and whether class_scope is given
NoFlags == <<TRUE, FALSE, FALSE, FALSE, FALSE, FALSE>>

NoCall ==
    [op |-> "none", scope |-> NoneValue, name |-> "a", flags |-> NoFlags, obj |-> 0,
     symbol_type |-> "none", is_subscript |-> "None", skip_cloned_lookup |-> FALSE,
     ret |-> 0, old |-> 0, raised |-> "none"]

VARIABLES
    symbols,                        \* the Symbols held by the scope tables and the alias table
    containers,                     \* symbols whose bound object is a container
    namespaces,                     \* symbols whose bound object has a registered NamespaceScope
    defined_cell_num,               \* DataSymbol.defined_cell_num
    required_cell_num,              \* DataSymbol.required_cell_num
    parents,                        \* DataSymbol.parents
    last_used_cell_num,             \* DataSymbol.last_used_cell_num
    version_by_used_timestamp,      \* DataSymbol.version_by_used_timestamp
    version_by_liveness_timestamp,  \* DataSymbol.version_by_liveness_timestamp
    temp_disable_warnings,          \* the one-shot staleness suppression flag
    updated_symbols,                \* NotebookSafety.updated_symbols
    cell_counter,                   \* NotebookSafety._cell_counter
    last_execution_counter,         \* NotebookSafety._last_execution_counter
    cell_content_by_counter,        \* NotebookSafety.cell_content_by_counter
    last_refused_code,              \* NotebookSafety._last_refused_code
    prev_cell_stale_symbols,        \* NotebookSafety._prev_cell_stale_symbols
    stale_dependency_detected,      \* NotebookSafety.stale_dependency_detected
    active_cell_id,                 \* NotebookSafety._active_cell_id
    counters_by_cell_id,            \* NotebookSafety._counters_by_cell_id
    highlights_enabled,             \* mut_settings.highlights_enabled
    skip_unsafe_cells,              \* settings.skip_unsafe_cells
    last_exec,                      \* what the last safe_execute did (run_cell_func argument, verdict)
    response,                       \* the last response returned to the front end
    obj_kind,                       \* the runtime's objects: "none" until allocated
    user_global_ns,                 \* get_ipython().user_global_ns: the object each global name holds
    obj_dict,                       \* obj.__dict__: the attributes each object holds itself
    global_table,                   \* the global Scope's _data_symbol_by_name (its names)
    dsym_obj_id,                    \* DataSymbol.obj_id, NoObj where there is no DataSymbol
    dsym_parents,                   \* DataSymbol.parents of the identity-keyed DataSymbols
    aliases,                        \* NotebookSafety.aliases
    namespaces_by_id,               \* NotebookSafety.namespaces, the Namespace Registry
    scopes,                         \* the NamespaceScopes: obj_id, _tombstone, member tables, cloned_from
    garbage_namespace_obj_ids,      \* NotebookSafety.garbage_namespace_obj_ids
    defined_this_cell,              \* the DataSymbols with defined_cell_num = cell_counter()
    seen_stmts,                     \* tracer().seen_stmts: the statement nodes handled in this unit
    mutations,                      \* tracer().mutations: the mutation events recorded and not yet reset
    mutation_update_deps,           \* the update_deps calls the last mutation handling made
    stmts,                          \* the statements of the executing unit still to run
    pc,                             \* where the executing unit is: idle, run, hook, end
    orphaned_at_start,              \* the identities no Symbol was bound to when the unit began
    _data_symbol_by_name,           \* Scope._data_symbol_by_name of each scope of the scope tree
    _subscript_data_symbol_by_name, \* NamespaceScope._subscript_data_symbol_by_name
    data_symbols,                   \* the DataSymbols created in the scope tree, in creation order
    obj_ref,                        \* NamespaceScope._obj_ref of foo's scope: the object and its __dict__
    scope_call,                     \* the last call of a Scope method and what it returned or raised
    precheck_call,                  \* the running or last call of precheck: PreCheck's state and result
    target_call                     \* the running or last handling of a statement's store or delete targets

graphVars == <<symbols, containers, namespaces, defined_cell_num, required_cell_num, parents,
               last_used_cell_num, version_by_used_timestamp, version_by_liveness_timestamp,
               temp_disable_warnings, updated_symbols>>
safetyVars == <<cell_counter, last_execution_counter, cell_content_by_counter, last_refused_code,
                prev_cell_stale_symbols, stale_dependency_detected, active_cell_id,
                counters_by_cell_id, highlights_enabled, skip_unsafe_cells>>
heapVars == <<obj_kind, user_global_ns, obj_dict, global_table, dsym_obj_id, dsym_parents,
              aliases, namespaces_by_id, scopes, garbage_namespace_obj_ids, defined_this_cell,
              seen_stmts, mutations, mutation_update_deps>>
scopeVars == <<_data_symbol_by_name, _subscript_data_symbol_by_name, data_symbols, obj_ref,
               scope_call>>
callVars == <<precheck_call, target_call>>
objVars == <<heapVars, stmts, pc, orphaned_at_start, scopeVars, callVars>>
vars == <<graphVars, safetyVars, last_exec, response, objVars>>

\* no call of precheck has been made
NoTargetCall ==
    [status |-> "none", handler |-> "none", outcomes |-> <<>>, handled |-> 0, touched |-> {},
     raised |-> "none"]
NoPrecheck ==
    [status |-> "none", module_node |-> <<>>, name_set |-> {}, visited |-> 0,
     safe_set |-> {}, check_set |-> {}]

\* the symbol graph as one value, so that the steps of a handler compose
Graph ==
    [sym |-> symbols, cont |-> containers, ns |-> namespaces,
     def |-> defined_cell_num, req |-> required_cell_num, par |-> parents,
     lu |-> last_used_cell_num,
     used |-> version_by_used_timestamp, live |-> version_by_liveness_timestamp,
     tdw |-> temp_disable_warnings, upd |-> updated_symbols]

SetGraph(g) ==
    /\ symbols' = g.sym
    /\ containers' = g.cont
    /\ namespaces' = g.ns
    /\ defined_cell_num' = g.def
    /\ required_cell_num' = g.req
    /\ parents' = g.par
    /\ last_used_cell_num' = g.lu
    /\ version_by_used_timestamp' = g.used
    /\ version_by_liveness_timestamp' = g.live
    /\ temp_disable_warnings' = g.tdw
    /\ updated_symbols' = g.upd

EmptyMap == [c \in {} |-> 0]

\* ------------------------------------------------------------------------
\* DataSymbol
\* ------------------------------------------------------------------------

\* DataSymbol.is_stale: required_at > defined_at, unless suppressed
is_stale(g, s) == ~g.tdw[s] /\ g.req[s] > g.def[s]

\* the transitive parents of s; the container of a parent counts as a parent
\* (a child of a namespace member is a namespace-descendant child of the container)
Ancestors(par, s) == IF par[s] = {} THEN {} ELSE AncClose(par, par[s])

\* DataSymbol.__init__: a fresh Symbol, stamped with the current cell number
NewDataSymbol(g, s, deps, counter) ==
    [g EXCEPT !.sym = @ \cup {s},
              !.def = [@ EXCEPT ![s] = counter],
              !.req = [@ EXCEPT ![s] = counter],
              !.par = [@ EXCEPT ![s] = deps \ {s}],
              !.lu = [@ EXCEPT ![s] = 0],
              !.used = [@ EXCEPT ![s] = EmptyMap],
              !.live = [@ EXCEPT ![s] = EmptyMap],
              !.tdw = [@ EXCEPT ![s] = FALSE]]

\* update_deps that replaces the parents and sets defined_at, and recomputes
\* no required_at
update_deps_without_recomputation(g, s, new_deps, overwrite, propagate, deleted, counter) ==
    LET par1 == [g.par EXCEPT ![s] = IF deleted THEN {}
                                     ELSE IF overwrite THEN new_deps \ {s}
                                     ELSE @ \cup (new_deps \ {s})]
        def1 == [g.def EXCEPT ![s] = IF overwrite /\ ~deleted THEN counter ELSE @]
    IN [g EXCEPT !.par = par1, !.def = def1,
                 !.tdw = [@ EXCEPT ![s] = IF overwrite THEN FALSE ELSE @],
                 !.upd = @ \cup {s}]

\* DataSymbol.update_deps(new_deps, overwrite, propagate, deleted)
update_deps(g, s, new_deps, overwrite, propagate, deleted, counter) ==
    LET par1 == [g.par EXCEPT ![s] = IF deleted THEN {}
                                     ELSE IF overwrite THEN new_deps \ {s}
                                     ELSE @ \cup (new_deps \ {s})]
        def1 == [g.def EXCEPT ![s] = IF overwrite /\ ~deleted THEN counter ELSE @]
        Req(c) == MaxOf({def1[p] : p \in Ancestors(par1, c)})
        affected == IF propagate /\ ~deleted
                    THEN {c \in Syms \ {s} : s \in Ancestors(par1, c)}
                    ELSE {}
        req1 == [c \in Syms |->
                    IF c = s THEN (IF deleted THEN g.req[s] ELSE Req(s))
                    ELSE IF c \in affected THEN Req(c)
                    ELSE g.req[c]]
    IN [g EXCEPT !.par = par1, !.def = def1, !.req = req1,
                 !.tdw = [@ EXCEPT ![s] = IF overwrite THEN FALSE ELSE @],
                 !.upd = @ \cup {s}]

\* DataSymbol.temporary_disable_warnings
temporary_disable_warnings(g, S) == [g EXCEPT !.tdw = [s \in Syms |-> IF s \in S THEN TRUE ELSE @[s]]]

\* update_usage_info: the version of each symbol read while the unit runs
update_usage_info(g, S, counter) ==
    [g EXCEPT !.lu = [s \in Syms |-> IF s \in S THEN counter ELSE @[s]],
              !.used = [s \in Syms |-> IF s \in S THEN (counter :> g.def[s]) @@ @[s] ELSE @[s]]]

\* ------------------------------------------------------------------------
\* Scope (data_model/scope.py)
\* ------------------------------------------------------------------------

\* Scope._resolve_symbol_type for the stores of a unit: subscript or default
resolve_symbol_type(s) == IF IsSubscriptSym(s) THEN "subscript" ELSE "default"

\* Scope.lookup_data_symbol_by_name from the scope `owner` (NoSym: the global
\* scope; else the namespace of owner's object): this scope's table, then the
\* nearest non-namespace ancestor, which is the global scope
lookup_data_symbol_by_name(g, owner, tok) ==
    IF tok \in g.sym THEN tok
    ELSE IF owner # NoSym /\ BareName(tok) \in g.sym THEN BareName(tok)
    ELSE NoSym

\* a CallPoint token of an AttrSubSymbolChain, and the name it calls
IsCallPoint(tok) == tok \in {"d()", "d.x()", "d.y()"}
CallPointSymbol(tok) ==
    CASE tok = "d()" -> "d"
      [] tok = "d.x()" -> "d.x"
      [] tok = "d.y()" -> "d.y"
      [] OTHER -> NoSym

\* the loop of get_most_specific_data_symbol_for_attrsub_chain from token i on
RECURSIVE ChainStep(_, _, _, _, _)
ChainStep(g, chain, i, dsym, owner) ==
    IF i > Len(chain) THEN [dsym |-> dsym, next_dsym |-> NoSym, success |-> TRUE]
    ELSE IF IsCallPoint(chain[i])
    THEN [dsym |-> dsym,
          next_dsym |-> lookup_data_symbol_by_name(g, owner, CallPointSymbol(chain[i])),
          success |-> FALSE]
    ELSE LET tok == chain[i]
             next_dsym == lookup_data_symbol_by_name(g, owner, tok)
         IN IF dsym # NoSym /\ next_dsym = NoSym
            THEN [dsym |-> IF is_stale(g, dsym) /\ g.def[dsym] >= g.req[dsym]
                           THEN NoSym ELSE dsym,
                  next_dsym |-> NoSym, success |-> FALSE]
            ELSE IF tok \notin g.sym          \* no such member object: KeyError
                 THEN [dsym |-> next_dsym, next_dsym |-> NoSym, success |-> FALSE]
            ELSE IF tok \notin g.ns           \* its object has no namespace
                 THEN [dsym |-> next_dsym, next_dsym |-> NoSym, success |-> FALSE]
            ELSE ChainStep(g, chain, i + 1, next_dsym, tok)

get_most_specific_data_symbol_for_attrsub_chain(g, chain) ==
    ChainStep(g, chain, 1, NoSym, NoSym)

\* Scope._upsert_data_symbol_for_name_inner: an existing Symbol of the same
\* kind is rebound in place, otherwise a fresh Symbol is put into the table
upsert_data_symbol_for_name_inner(g, s, deps, counter) ==
    IF s \in g.sym /\ resolve_symbol_type(s) = (IF IsSubscriptSym(s) THEN "subscript" ELSE "default")
    THEN g
    ELSE NewDataSymbol(g, s, deps, counter)

\* upsert that creates or rebinds the Symbol but does not finalize its versions
upsert_without_update_deps(g, s, deps, overwrite, propagate, counter) ==
    upsert_data_symbol_for_name_inner(g, s, deps, counter)

\* Scope.upsert_data_symbol_for_name
upsert_data_symbol_for_name(g, s, deps, overwrite, propagate, counter) ==
    update_deps(upsert_data_symbol_for_name_inner(g, s, deps, counter),
                s, deps, overwrite, propagate, FALSE, counter)

\* ------------------------------------------------------------------------
\* Tracing one unit (tracing/trace_stmt.py)
\* ------------------------------------------------------------------------

\* the unit raises before its statement finishes: it does not parse, it loads
\* a name that is not bound, or it stores into something that is no container
UnitRaises(g, src) ==
    \/ ~Parses(src)
    \/ \E r \in Reads(src) : r \notin g.sym
    \/ /\ Target(src) # NoSym
       /\ NsParent(Target(src)) # NoSym
       /\ NsParent(Target(src)) \notin g.cont
    \/ (DelTarget(src) # NoSym /\ DelTarget(src) \notin g.sym)

\* the object bound to t is replaced: its NamespaceScope expires, _namespace_gc
\* drops it from the registry and clears its tables, _gc collects the members
collect_rebound_namespace(g, t, wasBound, storesContainer) ==
    LET removed == IF wasBound THEN NsDescendants(t) ELSE {}
    IN [g EXCEPT !.sym = @ \ removed,
                 !.cont = ((@ \ removed) \ {t}) \cup (IF storesContainer THEN {t} ELSE {}),
                 !.ns = (@ \ removed) \ {t}]

\* the store upserted with propagate off, as for the target of a For loop
handle_assign_target_without_propagation(g, src, deps, counter) ==
    LET t == Target(src)
        g1 == IF NsParent(t) = NoSym THEN g ELSE [g EXCEPT !.ns = @ \cup {NsParent(t)}]
        g2 == upsert_data_symbol_for_name(g1, t, deps, TRUE, FALSE, counter)
    IN collect_rebound_namespace(g2, t, t \in g.sym, StoresContainer(src))

\* TraceStatement._handle_assign_target_for_deps: resolve the store target
\* (registering the namespace of the container stored into), then upsert
handle_assign_target_for_deps(g, src, deps, counter) ==
    LET t == Target(src)
        g1 == IF NsParent(t) = NoSym THEN g ELSE [g EXCEPT !.ns = @ \cup {NsParent(t)}]
        g2 == upsert_data_symbol_for_name(g1, t, deps, TRUE, TRUE, counter)
    IN collect_rebound_namespace(g2, t, t \in g.sym, StoresContainer(src))

\* Scope.delete_data_symbol_for_name and NamespaceScope.delete_data_symbol_for_name:
\* the symbol leaves its table; a subscript member of a namespace is finalized
\* with update_deps(set(), deleted=True), a plain name or an attribute with
\* update_deps(set())
delete_data_symbol_for_name(g, s, is_subscript, counter) ==
    IF s \notin g.sym THEN g
    ELSE IF NsParent(s) # NoSym /\ is_subscript
    THEN update_deps([g EXCEPT !.sym = @ \ {s}], s, {}, TRUE, TRUE, TRUE, counter)
    ELSE update_deps([g EXCEPT !.sym = @ \ {s}], s, {}, TRUE, TRUE, FALSE, counter)

\* TraceStatement._handle_delete
handle_delete(g, src, counter) ==
    delete_data_symbol_for_name(g, DelTarget(src), IsSubscriptSym(DelTarget(src)), counter)

\* TraceStatement.handle_dependencies for the unit's statement (no mutation
\* events): the loaded symbols' usage is recorded, then the store or the
\* deletion is handled
handle_dependencies(g, src, counter) ==
    LET deps == Reads(src)
        g1 == update_usage_info(g, deps, counter)
    IN IF Target(src) # NoSym THEN handle_assign_target_for_deps(g1, src, deps, counter)
       ELSE IF DelTarget(src) # NoSym THEN handle_delete(g1, src, counter)
       ELSE g1

\* run_cell_func(cell) under _tracing_context
run_traced(g, src, counter) ==
    LET g0 == [g EXCEPT !.upd = {}]
    IN IF UnitRaises(g, src) THEN g0 ELSE handle_dependencies(g0, src, counter)

\* ------------------------------------------------------------------------
\* NotebookSafety (safety.py)
\* ------------------------------------------------------------------------

\* compute_live_dead_symbol_refs: the paths a unit loads, the path it stores
LiveRefs(cell) == Reads(cell)
DeadRefs(cell) == {Target(cell)} \ {NoSym}

\* get_symbols_for_references: a plain name is looked up in the global scope,
\* an attribute/subscript chain is resolved to its most specific Symbol
get_symbols_for_references(g, refs, only_add_successful_resolutions) ==
    LET Resolve(r) ==
            IF NsParent(r) = NoSym
            THEN {lookup_data_symbol_by_name(g, NoSym, r)} \ {NoSym}
            ELSE LET m == get_most_specific_data_symbol_for_attrsub_chain(g, ChainOf(r))
                 IN IF m.dsym # NoSym /\ (m.success \/ ~only_add_successful_resolutions)
                    THEN {m.dsym} ELSE {}
    IN UNION {Resolve(r) : r \in refs}

\* _check_cell_and_resolve_symbols with every live symbol taken as stale
check_cell_all_live_stale(g, cell) ==
    LET live == get_symbols_for_references(g, LiveRefs(cell), FALSE)
    IN [live |-> live,
        dead |-> get_symbols_for_references(g, DeadRefs(cell), TRUE),
        stale |-> live]

\* _check_cell_and_resolve_symbols with the killed symbols counted as live
check_cell_dead_as_live(g, cell) ==
    LET live == get_symbols_for_references(g, LiveRefs(cell) \cup DeadRefs(cell), FALSE)
    IN [live |-> live,
        dead |-> get_symbols_for_references(g, DeadRefs(cell), TRUE),
        stale |-> {s \in live : is_stale(g, s)}]

\* NotebookSafety._check_cell_and_resolve_symbols (of a cell that parses)
check_cell_and_resolve_symbols(g, cell) ==
    LET live == get_symbols_for_references(g, LiveRefs(cell), FALSE)
    IN [live |-> live,
        dead |-> get_symbols_for_references(g, DeadRefs(cell), TRUE),
        stale |-> {s \in live : is_stale(g, s)}]

\* _get_max_defined_cell_num_for_symbols taking the oldest live symbol: every
\* symbol has to be newer than the counter compared with
get_min_defined_cell_num_for_symbols(g, S) ==
    LET nums == {g.def[s] : s \in S}
    IN IF nums = {} THEN -1 ELSE CHOOSE m \in nums : \A n \in nums : m <= n

\* NotebookSafety._get_max_defined_cell_num_for_symbols
get_max_defined_cell_num_for_symbols(g, S) ==
    LET nums == {g.def[s] : s \in S}
                \cup UNION {{g.def[m] : m \in NsDescendants(s) \cap g.sym} : s \in S \cap g.ns}
    IN IF nums = {} THEN -1 ELSE MaxOf(nums)

\* the version of every live symbol is recorded under the current cell number
record_liveness(g, live, counter) ==
    [g EXCEPT !.live = [s \in Syms |-> IF s \in live THEN (counter :> g.def[s]) @@ @[s] ELSE @[s]]]

\* _precheck_for_stale that never grants the override
precheck_without_override(g, cell, lrc, prev, detected, counter) ==
    IF ~Parses(cell)
    THEN [ret |-> FALSE, g |-> g, lrc |-> lrc, prev |-> prev, detected |-> detected]
    ELSE LET r == check_cell_and_resolve_symbols(g, cell)
         IN IF r.stale # {}
            THEN [ret |-> TRUE, g |-> g, lrc |-> cell, prev |-> r.stale, detected |-> TRUE]
            ELSE [ret |-> FALSE, g |-> record_liveness(g, r.live, counter),
                  lrc |-> NoCode, prev |-> r.stale, detected |-> detected]

\* _precheck_for_stale that records liveness before it decides to refuse
precheck_records_before_refusing(g, cell, lrc, prev, detected, counter) ==
    IF ~Parses(cell)
    THEN [ret |-> FALSE, g |-> g, lrc |-> lrc, prev |-> prev, detected |-> detected]
    ELSE LET r == check_cell_and_resolve_symbols(g, cell)
         IN IF lrc = NoCode \/ cell # lrc
            THEN IF r.stale # {}
                 THEN [ret |-> TRUE, g |-> record_liveness(g, r.live, counter),
                       lrc |-> cell, prev |-> r.stale, detected |-> TRUE]
                 ELSE [ret |-> FALSE, g |-> record_liveness(g, r.live, counter),
                       lrc |-> NoCode, prev |-> r.stale, detected |-> detected]
            ELSE [ret |-> FALSE,
                  g |-> record_liveness(temporary_disable_warnings(g, prev), r.live, counter),
                  lrc |-> NoCode, prev |-> {}, detected |-> detected]

\* NotebookSafety._precheck_for_stale: the verdict and the state it leaves
precheck_for_stale(g, cell, lrc, prev, detected, counter) ==
    IF ~Parses(cell)
    THEN [ret |-> FALSE, g |-> g, lrc |-> lrc, prev |-> prev, detected |-> detected]
    ELSE LET r == check_cell_and_resolve_symbols(g, cell)
         IN IF lrc = NoCode \/ cell # lrc
            THEN IF r.stale # {}
                 THEN [ret |-> TRUE, g |-> g, lrc |-> cell, prev |-> r.stale, detected |-> TRUE]
                 ELSE [ret |-> FALSE, g |-> record_liveness(g, r.live, counter),
                       lrc |-> NoCode, prev |-> r.stale, detected |-> detected]
            ELSE [ret |-> FALSE,
                  g |-> record_liveness(temporary_disable_warnings(g, prev), r.live, counter),
                  lrc |-> NoCode, prev |-> {}, detected |-> detected]

NoResponse == [type |-> "none"]

\* what safe_execute is observed to do: the argument run_cell_func receives,
\* the verdicts, the stale symbols among those the unit's loads resolve to in
\* the state the precheck sees, and the submission before this one
ExecRecord(cell, precheck, refused) ==
    [cell |-> cell, precheck |-> precheck, refused |-> refused,
     ran |-> IF refused THEN Placeholder ELSE cell,
     counter |-> cell_counter,
     stale_live |-> {s \in get_symbols_for_references(Graph, Reads(cell), FALSE) :
                        required_cell_num[s] > defined_cell_num[s] /\ ~temp_disable_warnings[s]},
     override |-> Parses(cell) /\ last_refused_code = cell,
     prev_cell |-> last_exec.cell, prev_refused |-> last_exec.refused,
     prev_override |-> last_exec.override]

\* NotebookSafety.safe_execute(cell, run_cell_func)
safe_execute(cell) ==
    LET pre == precheck_for_stale(Graph, cell, last_refused_code, prev_cell_stale_symbols,
                                  stale_dependency_detected, cell_counter)
    IN /\ last_execution_counter' = cell_counter
       /\ IF active_cell_id # NoCell
          THEN counters_by_cell_id' = (active_cell_id :> cell_counter) @@ counters_by_cell_id
          ELSE UNCHANGED counters_by_cell_id
       /\ active_cell_id' = NoCell
       /\ last_refused_code' = pre.lrc
       /\ prev_cell_stale_symbols' = pre.prev
       /\ stale_dependency_detected' = pre.detected
       /\ IF pre.ret /\ skip_unsafe_cells
          THEN /\ SetGraph(pre.g)
               /\ UNCHANGED <<cell_counter, cell_content_by_counter>>
               /\ last_exec' = ExecRecord(cell, pre.ret, TRUE)
          ELSE /\ cell_content_by_counter' = (cell_counter :> cell) @@ cell_content_by_counter
               /\ SetGraph(run_traced(pre.g, cell, cell_counter))
               /\ cell_counter' = cell_counter + 1
               /\ last_exec' = ExecRecord(cell, pre.ret, FALSE)
       /\ response' = NoResponse
       /\ UNCHANGED <<highlights_enabled, skip_unsafe_cells>>

\* NotebookSafety.set_active_cell (request 'change_active_cell')
set_active_cell(cell_id) ==
    /\ active_cell_id' = cell_id
    /\ response' = NoResponse
    /\ UNCHANGED <<graphVars, cell_counter, last_execution_counter, cell_content_by_counter,
                   last_refused_code, prev_cell_stale_symbols, stale_dependency_detected,
                   counters_by_cell_id, highlights_enabled, skip_unsafe_cells, last_exec>>

\* line magic 'hls' / 'nohls'
set_highlights(b) ==
    /\ highlights_enabled' = b
    /\ response' = NoResponse
    /\ UNCHANGED <<graphVars, cell_counter, last_execution_counter, cell_content_by_counter,
                   last_refused_code, prev_cell_stale_symbols, stale_dependency_detected,
                   active_cell_id, counters_by_cell_id, skip_unsafe_cells, last_exec>>

\* check_and_link_multiple_cells, lines 274-282: one stale cell absorbs the
\* links of its stale refreshers; a change is detected by the set's length
closure_visit(links, stale_cells, c) ==
    LET new_stale_links == (links[c] \cup UNION {links[r] : r \in links[c] \cap stale_cells}) \ {c}
    IN [links |-> [links EXCEPT ![c] = new_stale_links],
        changed |-> Cardinality(links[c]) # Cardinality(new_stale_links)]

\* lines 272-282: one pass over the stale cells in the set's iteration order
RECURSIVE closure_pass(_, _, _, _, _)
closure_pass(links, stale_cells, order, i, changed) ==
    IF i > Len(order) THEN [links |-> links, changed |-> changed]
    ELSE LET v == closure_visit(links, stale_cells, order[i])
         IN closure_pass(v.links, stale_cells, order, i + 1, changed \/ v.changed)

\* lines 269-282: passes until one reports no change
RECURSIVE closure_loop(_, _, _)
closure_loop(links, stale_cells, order) ==
    LET p == closure_pass(links, stale_cells, order, 1, FALSE)
    IN IF p.changed THEN closure_loop(p.links, stale_cells, order) ELSE p.links

\* the direct refreshers of a stale cell: the cells that kill one of its stale symbols
direct_refreshers(g, cells, c) ==
    LET parsed == {x \in cells : Parses(x)}
        killing(s) == {x \in parsed : s \in check_cell_and_resolve_symbols(g, x).dead}
    IN UNION {killing(s) : s \in check_cell_and_resolve_symbols(g, c).stale}

\* lines 283-286 with  stale_links[stale_cell_id] -= stale_cells  left out
link_refreshers_keeping_stale(closed, stale_cells) ==
    LET stale_links == [c \in stale_cells |-> closed[c]]
        refreshers == UNION {stale_links[c] : c \in stale_cells}
    IN [stale_links |-> stale_links,
        refresher_links |-> [r \in refreshers |-> {c \in stale_cells : r \in stale_links[c]}]]

\* lines 283-286 keeping only the stale cells that have a refresher
link_refreshers_dropping_empty(closed, stale_cells) ==
    LET linked == {c \in stale_cells : closed[c] \ stale_cells # {}}
        stale_links == [c \in linked |-> closed[c] \ stale_cells]
        refreshers == UNION {stale_links[c] : c \in linked}
    IN [stale_links |-> stale_links,
        refresher_links |-> [r \in refreshers |-> {c \in linked : r \in stale_links[c]}]]

\* check_and_link_multiple_cells, lines 283-286: the stale cells are taken out
\* of every link set, and each remaining link is entered in refresher_links
link_refreshers(closed, stale_cells) ==
    LET stale_links == [c \in stale_cells |-> closed[c] \ stale_cells]
        refreshers == UNION {stale_links[c] : c \in stale_cells}
    IN [stale_links |-> stale_links,
        refresher_links |-> [r \in refreshers |-> {c \in stale_cells : r \in stale_links[c]}]]

\* check_and_link_multiple_cells where a SyntaxError of one cell ends the batch
check_and_link_fatal_syntax_error(g, cells, order, counters, highlights) ==
    IF ~highlights \/ \E c \in cells : ~Parses(c)
    THEN [type |-> "cell_freshness", cells |-> cells, stale_cells |-> {}, fresh_cells |-> {},
          stale_links |-> EmptyMap, refresher_links |-> EmptyMap, closed |-> EmptyMap]
    ELSE LET res(c) == check_cell_and_resolve_symbols(g, c)
             stale_cells == {c \in cells : res(c).stale # {}}
             fresh_cells == {c \in cells \ stale_cells :
                                /\ c \in DOMAIN counters
                                /\ get_max_defined_cell_num_for_symbols(g, res(c).live) > counters[c]}
             direct == [c \in stale_cells |-> direct_refreshers(g, cells, c)]
             closed == closure_loop(direct, stale_cells, order)
             links == link_refreshers(closed, stale_cells)
         IN [type |-> "cell_freshness", cells |-> cells,
             stale_cells |-> stale_cells, fresh_cells |-> fresh_cells,
             stale_links |-> links.stale_links,
             refresher_links |-> links.refresher_links,
             closed |-> closed]

\* NotebookSafety.check_and_link_multiple_cells(cells_by_id, None); a cell's id
\* is its content; order is the iteration order of the set stale_cells
check_and_link_multiple_cells(g, cells, order, counters, highlights) ==
    IF ~highlights
    THEN [type |-> "cell_freshness", cells |-> cells, stale_cells |-> {}, fresh_cells |-> {},
          stale_links |-> EmptyMap, refresher_links |-> EmptyMap, closed |-> EmptyMap]
    ELSE LET parsed == {c \in cells : Parses(c)}
             res(c) == check_cell_and_resolve_symbols(g, c)
             stale_cells == {c \in parsed : res(c).stale # {}}
             fresh_cells == {c \in parsed \ stale_cells :
                                /\ c \in DOMAIN counters
                                /\ get_max_defined_cell_num_for_symbols(g, res(c).live) > counters[c]}
             direct == [c \in stale_cells |-> direct_refreshers(g, cells, c)]
             closed == closure_loop(direct, stale_cells, order)
             links == link_refreshers(closed, stale_cells)
         IN [type |-> "cell_freshness", cells |-> cells,
             stale_cells |-> stale_cells, fresh_cells |-> fresh_cells,
             stale_links |-> links.stale_links,
             refresher_links |-> links.refresher_links,
             closed |-> closed]

\* the iteration orders the set of stale cells of a batch can have
StaleOrders(g, cells, highlights) ==
    LET stale_cells == {c \in cells : Parses(c) /\ check_cell_and_resolve_symbols(g, c).stale # {}}
    IN IF highlights THEN {[i \in 1..Cardinality(stale_cells) |-> f[i]] : f \in Perms(stale_cells)}
       ELSE {<<>>}

\* NotebookSafety.handle, request 'cell_freshness'
handle_cell_freshness(executed_cell_id, cells, order) ==
    LET counters == IF executed_cell_id # NoCell
                    THEN (executed_cell_id :> last_execution_counter) @@ counters_by_cell_id
                    ELSE counters_by_cell_id
    IN /\ counters_by_cell_id' = counters
       /\ response' = check_and_link_multiple_cells(Graph, cells, order, counters, highlights_enabled)
       /\ UNCHANGED <<graphVars, cell_counter, last_execution_counter, cell_content_by_counter,
                      last_refused_code, prev_cell_stale_symbols, stale_dependency_detected,
                      active_cell_id, highlights_enabled, skip_unsafe_cells, last_exec>>

\* the cell number itself for every entry it has in a history map: the
\* timestamp taken where the version is meant
dep_cell_nums_timestamps(g, n) ==
    {n : s \in {x \in g.sym : n \in DOMAIN g.used[x] \/ n \in DOMAIN g.live[x]}}

\* the versions recorded for cell n in either history map of any Symbol
dep_cell_nums(g, n) ==
    {g.used[s][n] : s \in {x \in g.sym : n \in DOMAIN g.used[x]}}
    \cup {g.live[s][n] : s \in {x \in g.sym : n \in DOMAIN g.live[x]}}

\* _get_cell_dependencies without the recursive calls: the cell and the
\* versions recorded for it
get_cell_dependencies_one_level(g, cell_num, dependencies) ==
    IF cell_num \in dependencies \/ cell_num <= 0 THEN dependencies
    ELSE dependencies \cup {cell_num} \cup {n \in dep_cell_nums(g, cell_num) : n > 0}

\* NotebookSafety._get_cell_dependencies: depth-first, memoized in dependencies
RECURSIVE get_cell_dependencies_rec(_, _, _)
RECURSIVE visit_all(_, _, _)
get_cell_dependencies_rec(g, cell_num, dependencies) ==
    IF cell_num \in dependencies \/ cell_num <= 0 THEN dependencies
    ELSE visit_all(g, dep_cell_nums(g, cell_num) \ (dependencies \cup {cell_num}),
                   dependencies \cup {cell_num})
visit_all(g, todo, dependencies) ==
    IF todo = {} THEN dependencies
    ELSE LET num == CHOOSE x \in todo : TRUE
         IN visit_all(g, todo \ {num}, get_cell_dependencies_rec(g, num, dependencies))

\* NotebookSafety.get_cell_dependencies(cell_num) for a cell that has run: the
\* key set of the result, and whether building the result raises KeyError
get_cell_dependencies(cell_num) ==
    LET dependencies == get_cell_dependencies_rec(Graph, cell_num, {})
    IN /\ cell_num \in DOMAIN cell_content_by_counter
       /\ response' = [type |-> "cell_dependencies", cell_num |-> cell_num,
                       keys |-> dependencies,
                       raised |-> ~(dependencies \subseteq DOMAIN cell_content_by_counter)]
       /\ UNCHANGED <<graphVars, safetyVars, last_exec>>

\* ------------------------------------------------------------------------
\* Initial state and steps
\* ------------------------------------------------------------------------

\* NotebookSafety.__init__ (skip_unsafe is a keyword argument, default True)
InitWith(skip_unsafe) ==
    /\ symbols = {}
    /\ containers = {}
    /\ namespaces = {}
    /\ defined_cell_num = [s \in Syms |-> 0]
    /\ required_cell_num = [s \in Syms |-> 0]
    /\ parents = [s \in Syms |-> {}]
    /\ last_used_cell_num = [s \in Syms |-> 0]
    /\ version_by_used_timestamp = [s \in Syms |-> EmptyMap]
    /\ version_by_liveness_timestamp = [s \in Syms |-> EmptyMap]
    /\ temp_disable_warnings = [s \in Syms |-> FALSE]
    /\ updated_symbols = {}
    /\ cell_counter = 1
    /\ last_execution_counter = 0
    /\ cell_content_by_counter = EmptyMap
    /\ last_refused_code = NoCode
    /\ prev_cell_stale_symbols = {}
    /\ stale_dependency_detected = FALSE
    /\ active_cell_id = NoCell
    /\ counters_by_cell_id = EmptyMap
    /\ highlights_enabled = TRUE
    /\ skip_unsafe_cells \in skip_unsafe
    /\ last_exec = [cell |-> NoCode, precheck |-> FALSE, refused |-> FALSE, ran |-> NoCode,
                    counter |-> 0, stale_live |-> {}, override |-> FALSE,
                    prev_cell |-> NoCode, prev_refused |-> FALSE, prev_override |-> FALSE]
    /\ response = NoResponse
    /\ obj_kind = [o \in Objs |-> "none"]
    /\ user_global_ns = [n \in GlobalNames |-> NoObj]
    /\ obj_dict = [o \in Objs |-> {}]
    /\ global_table = {}
    /\ dsym_obj_id = [key \in SymKeys |-> NoObj]
    /\ dsym_parents = [key \in SymKeys |-> {}]
    /\ aliases = [k \in ObjKeys |-> {}]
    /\ namespaces_by_id = [k \in ObjKeys |-> NoScope]
    /\ scopes = [s \in Objs |-> NoScopeRecord]
    /\ garbage_namespace_obj_ids = {}
    /\ defined_this_cell = {}
    /\ seen_stmts = {}
    /\ mutations = <<>>
    /\ mutation_update_deps = {}
    /\ stmts = <<>>
    /\ pc = "idle"
    /\ orphaned_at_start = {}
    /\ _data_symbol_by_name = [s \in ScopeNames |-> EmptyTable]
    /\ _subscript_data_symbol_by_name = [s \in ScopeNames |-> EmptyTable]
    /\ data_symbols = <<>>
    /\ obj_ref = [alive |-> TRUE, dict |-> {}]
    /\ scope_call = NoCall
    /\ precheck_call = NoPrecheck
    /\ target_call = NoTargetCall

Init == InitWith({TRUE})

\* the units of a notebook session: the setup units run first, in order, then
\* at most MaxFree units drawn from free run
InSetup(setup) == cell_counter <= Len(setup)
Submit(setup, free) ==
    /\ UNCHANGED objVars
    /\ cell_counter <= Len(setup) + MaxFree
    /\ \E cell \in (IF InSetup(setup) THEN {setup[cell_counter]} ELSE free) : safe_execute(cell)

ChangeActiveCell(setup, ids) ==
    /\ UNCHANGED objVars
    /\ ~InSetup(setup)
    /\ cell_counter <= Len(setup) + MaxFree
    /\ \E cell_id \in ids : set_active_cell(cell_id)

SetHighlights(setup) ==
    /\ UNCHANGED objVars
    /\ ~InSetup(setup)
    /\ \E b \in BOOLEAN : b # highlights_enabled /\ set_highlights(b)

\* the front end sends its batch (without naming an executed cell)
CellFreshness(setup, batches) ==
    /\ UNCHANGED objVars
    /\ ~InSetup(setup)
    /\ \E cells \in batches :
          \E order \in StaleOrders(Graph, cells, highlights_enabled) :
             handle_cell_freshness(NoCell, cells, order)

CellDependencies(setup) ==
    /\ UNCHANGED objVars
    /\ ~InSetup(setup)
    /\ \E cell_num \in DOMAIN cell_content_by_counter : get_cell_dependencies(cell_num)

\* --- a flat notebook: v, w, u -------------------------------------------
CellA == "v = 1"
CellB == "print(v)"
CellC == "v = 2"
FlatSetup == <<CellA>>
FlatFree == {CellB, CellC, "w = v", "u = w", "v = ("}
FlatBatches == {{CellA, CellB, CellC}, {CellA, CellB, "w = v", "u = w", "v = ("}}

SubmitFlat == Submit(FlatSetup, FlatFree)
ChangeActiveCellFlat == ChangeActiveCell(FlatSetup, {CellB})
SetHighlightsFlat == SetHighlights(FlatSetup)
CellFreshnessFlat == CellFreshness(FlatSetup, FlatBatches)
CellDependenciesFlat == CellDependencies(FlatSetup)

Next ==
    \/ SubmitFlat
    \/ ChangeActiveCellFlat
    \/ SetHighlightsFlat
    \/ CellFreshnessFlat
    \/ CellDependenciesFlat

Spec == Init /\ [][Next]_vars

\* --- a notebook whose symbols w, u, a are stale after the setup units ----
StaleSetup == <<"v = 1", "w = v", "u = w", "a = u", "v = 2">>
StaleFree == {"print(a)", "a = a + 1", "w = v", "print(u)"}
StaleBatches == {{"a = a + 1", "a = a + u", "u = w", "w = v"},
                 {"print(a)", "u = w", "w = v", "v = ("}}

InitStale == InitWith(BOOLEAN)
SubmitStale == Submit(StaleSetup, StaleFree)
ChangeActiveCellStale == ChangeActiveCell(StaleSetup, {"w = v"})
SetHighlightsStale == SetHighlights(StaleSetup)
CellFreshnessStale == CellFreshness(StaleSetup, StaleBatches)
CellDependenciesStale == CellDependencies(StaleSetup)

NextStale ==
    \/ SubmitStale
    \/ ChangeActiveCellStale
    \/ SetHighlightsStale
    \/ CellFreshnessStale
    \/ CellDependenciesStale

SpecStale == InitStale /\ [][NextStale]_vars

\* --- nested dict: d['x']['y'] -------------------------------------------
DictSetup == <<"d = {}", "d['x'] = {}", "d['x']['y'] = 5", "t = d['x']['y'] + 1">>
DictFree == {"t = d['x']['y'] + 1", "d['x']['y'] = 9", "d['x']['y'] = 5", "print(t)"}
DictBatches == {{"print(t)", "t = d['x']['y'] + 1", "d['x']['y'] = 9"}}

SubmitDict == Submit(DictSetup, DictFree)
ChangeActiveCellDict == ChangeActiveCell(DictSetup, {"print(t)"})
SetHighlightsDict == SetHighlights(DictSetup)
CellFreshnessDict == CellFreshness(DictSetup, DictBatches)
CellDependenciesDict == CellDependencies(DictSetup)

NextDict ==
    \/ SubmitDict
    \/ ChangeActiveCellDict
    \/ SetHighlightsDict
    \/ CellFreshnessDict
    \/ CellDependenciesDict

SpecDict == Init /\ [][NextDict]_vars

\* --- nested attribute namespaces: d.x.a, d.y.a --------------------------
DotSetup == <<"d = DotDict()", "d.x = DotDict()", "d.y = DotDict()", "d.x.a = 5", "d.y.a = 7",
              "x = d.x.a + 9", "y = d.y.a + 9">>
DotReaders == {"print(x)", "print(y)", "print(d.x.a)", "print(d.x)", "print(d)"}
DotFree == {"d.y.a = 9", "d.y = 10", "d.x.a = 5", "y = d.y.a + 9", "print(y)", "print(x)"}
DotBatches == {DotReaders \cup {"y = d.y.a + 9", "d.y.a = 9"}}

SubmitDot == Submit(DotSetup, DotFree)
ChangeActiveCellDot == ChangeActiveCell(DotSetup, {"print(y)"})
SetHighlightsDot == SetHighlights(DotSetup)
CellFreshnessDot == CellFreshness(DotSetup, DotBatches)
CellDependenciesDot == CellDependencies(DotSetup)

NextDot ==
    \/ SubmitDot
    \/ ChangeActiveCellDot
    \/ SetHighlightsDot
    \/ CellFreshnessDot
    \/ CellDependenciesDot

SpecDot == Init /\ [][NextDot]_vars

\* ------------------------------------------------------------------------
\* Properties
\* ------------------------------------------------------------------------

\* the stale symbols among those the loads of a unit resolve to now
StaleLive(cell) ==
    {s \in get_symbols_for_references(Graph, Reads(cell), FALSE) :
        required_cell_num[s] > defined_cell_num[s] /\ ~temp_disable_warnings[s]}

Executed == last_exec.cell # NoCode
Linked == response.type = "cell_freshness"

C2_OverrideRuns ==
    /\ (skip_unsafe_cells /\ Executed /\ last_exec.prev_refused /\ last_exec.prev_cell = last_exec.cell) =>
          /\ ~last_exec.precheck
          /\ ~last_exec.refused
          /\ last_exec.ran = last_exec.cell
          /\ last_exec.counter \in DOMAIN cell_content_by_counter
          /\ cell_content_by_counter[last_exec.counter] = last_exec.cell
          /\ last_refused_code = NoCode
    /\ (skip_unsafe_cells /\ Executed /\ last_exec.prev_override /\ last_exec.refused) =>
          last_exec.stale_live # {}

C2_Witness ==
    /\ skip_unsafe_cells
    /\ last_exec.prev_refused
    /\ last_exec.prev_cell = last_exec.cell
    /\ last_exec.ran = "print(a)"

\* C3: with skip_unsafe_cells on, a submission that is not an override and has
\* a stale live symbol is not run: run_cell_func receives 'None', nothing is
\* added to cell_content_by_counter or to any version_by_liveness_timestamp,
\* stale_dependency_detected is set and _last_refused_code is that source.
C3_RefusedNotRun ==
    [][(/\ last_exec' # last_exec
        /\ skip_unsafe_cells
        /\ last_exec'.stale_live # {}
        /\ ~last_exec'.override)
       => (/\ last_exec'.refused
           /\ last_exec'.ran = Placeholder
           /\ cell_content_by_counter' = cell_content_by_counter
           /\ version_by_liveness_timestamp' = version_by_liveness_timestamp
           /\ cell_counter' = cell_counter
           /\ stale_dependency_detected'
           /\ last_refused_code' = last_exec'.cell)]_vars

C3_Witness ==
    /\ skip_unsafe_cells
    /\ last_exec.refused
    /\ last_exec.ran = Placeholder
    /\ last_exec.stale_live = {"a"}
    /\ last_refused_code = last_exec.cell

\* the precheck's verdict on a unit submitted now
Flagged(cell) == StaleLive(cell) # {}

Ran(n, cell) == n \in DOMAIN cell_content_by_counter /\ cell_content_by_counter[n] = cell

\* C4: after d = {}; d['x'] = {}; d['x']['y'] = 5; t = d['x']['y'] + 1;
\* d['x']['y'] = 9 have run in that order, t is stale and a unit reading t is
\* flagged; after t = d['x']['y'] + 1 is run again t is not stale. In general
\* the target of an overwriting assignment that has just run is not stale.
C4_RerunClearsStaleness ==
    /\ (cell_counter = 6 /\ Ran(5, "d['x']['y'] = 9")) =>
          /\ is_stale(Graph, "t")
          /\ Flagged("print(t)")
    /\ (cell_counter = 7 /\ Ran(5, "d['x']['y'] = 9") /\ Ran(6, "t = d['x']['y'] + 1")) =>
          /\ ~is_stale(Graph, "t")
          /\ ~Flagged("print(t)")
    /\ (Executed /\ ~last_exec.refused /\ Target(last_exec.cell) \in updated_symbols) =>
          /\ defined_cell_num[Target(last_exec.cell)] = last_exec.counter
          /\ ~is_stale(Graph, Target(last_exec.cell))

\* t re-run after a unit reading the stale t was refused
C4_Witness ==
    /\ cell_counter = 7
    /\ Ran(5, "d['x']['y'] = 9")
    /\ Ran(6, "t = d['x']['y'] + 1")
    /\ last_exec.prev_cell = "print(t)"
    /\ last_exec.prev_refused
    /\ ~is_stale(Graph, "t")

\* C5: with x computed from d.x.a and y computed from d.y.a, once d.y.a is
\* reassigned or d.y rebound after y was last computed, a unit reading y is
\* flagged (unless y's warning was overridden); units reading d.x.a, d.x or d
\* are never flagged, and a unit reading x is flagged only after a store to
\* d.x.a that followed x's computation.
C5_BranchLocalStaleness ==
    /\ ((\E n \in DOMAIN cell_content_by_counter :
            /\ n > defined_cell_num["y"]
            /\ cell_content_by_counter[n] \in {"d.y.a = 9", "d.y = 10"})
        /\ "y" \in symbols /\ ~temp_disable_warnings["y"]) => Flagged("print(y)")
    /\ ~Flagged("print(d.x.a)")
    /\ ~Flagged("print(d.x)")
    /\ ~Flagged("print(d)")
    /\ Flagged("print(x)") =>
          \E n \in DOMAIN cell_content_by_counter :
              n > defined_cell_num["x"] /\ cell_content_by_counter[n] = "d.x.a = 5"
    /\ (cell_counter = 9 /\ (Ran(8, "d.y.a = 9") \/ Ran(8, "d.y = 10"))) =>
          Flagged("print(y)") /\ ~Flagged("print(x)")

C5_Witness ==
    /\ cell_counter = 9
    /\ Ran(8, "d.y.a = 9")
    /\ Flagged("print(y)")
    /\ ~Flagged("print(x)")
    /\ last_exec.cell = "print(y)"
    /\ last_exec.refused

ScenarioABC ==
    /\ cell_counter = 4
    /\ Ran(1, CellA) /\ Ran(2, CellB) /\ Ran(3, CellC)
    /\ Linked
    /\ response.cells = {CellA, CellB, CellC}

\* C7 as stated: with A defining v = 1, B reading v and C redefining v = 2,
\* after C has run check_and_link_multiple_cells over {A, B, C} reports B in
\* stale_cells with stale_links[B] = {C}.
C7_AsStated ==
    ScenarioABC =>
        /\ CellB \in response.stale_cells
        /\ CellB \in DOMAIN response.stale_links
        /\ response.stale_links[CellB] = {CellC}

\* C7 amended: after A, B, C have run, check_and_link_multiple_cells over
\* {A, B, C} reports no stale cell and no links, v being freshly defined by C;
\* with highlights on, B is in fresh_cells when the counter recorded for B is
\* that of its run, and C names no refresher of B.
C7_ReaderFreshNotStale ==
    ScenarioABC =>
        /\ response.stale_cells = {}
        /\ DOMAIN response.stale_links = {}
        /\ DOMAIN response.refresher_links = {}
        /\ ~is_stale(Graph, "v")
        /\ (highlights_enabled /\ CellB \in DOMAIN counters_by_cell_id /\ counters_by_cell_id[CellB] = 2)
              => response.fresh_cells = {CellB}

C7_Witness ==
    /\ ScenarioABC
    /\ highlights_enabled
    /\ CellB \in response.fresh_cells
    /\ CellB \notin response.stale_cells

\* B's dependencies have been asked for after A and B ran as cells 1 and 2
ScenarioAB ==
    /\ Ran(1, CellA) /\ Ran(2, CellB)
    /\ response.type = "cell_dependencies"
    /\ response.cell_num = 2

\* C8 as stated: with A defining v = 1 and B reading v, the key set of
\* get_cell_dependencies(B) is exactly {A}.
C8_AsStated == ScenarioAB => response.keys = {1}

\* C8 amended: with A defining v = 1 and B reading v, the key set of
\* get_cell_dependencies(B) is {A, B}: the cell asked about and the cell that
\* defined what it reads.
C8_DependenciesIncludeSelf == ScenarioAB => response.keys = {1, 2} /\ ~response.raised

C8_Witness == ScenarioAB /\ 1 \in response.keys /\ cell_counter = 4

\* the edges of the history maps: from n to every version recorded for n
HistoryEdges(n) ==
    {m \in 0..cell_counter :
        \E s \in symbols :
            \/ n \in DOMAIN version_by_used_timestamp[s] /\ version_by_used_timestamp[s][n] = m
            \/ n \in DOMAIN version_by_liveness_timestamp[s] /\ version_by_liveness_timestamp[s][n] = m}

\* the cell numbers greater than 0 reachable from those of X
RECURSIVE Reachable(_)
Reachable(X) ==
    LET Y == X \cup {m \in UNION {HistoryEdges(n) : n \in X} : m > 0}
    IN IF Y = X THEN X ELSE Reachable(Y)

\* C9: for every executed cell number c, get_cell_dependencies(c) raises no
\* error and its key set is the set of cell numbers > 0 reachable from c over
\* the versions recorded in version_by_used_timestamp and
\* version_by_liveness_timestamp; no edge leads to a greater cell number.
C9_DependenciesAreReachable ==
    /\ response.type = "cell_dependencies" =>
          /\ response.keys = Reachable({response.cell_num})
          /\ ~response.raised
    /\ \A n \in 1..cell_counter : \A m \in HistoryEdges(n) : m <= n

\* a chain of three cells below the one asked about
C9_Witness ==
    /\ response.type = "cell_dependencies"
    /\ Cardinality(response.keys) >= 4
    /\ \E n \in response.keys : n # response.cell_num /\ n \notin HistoryEdges(response.cell_num)

\* the units reachable from c over direct-refresher edges through stale units
RECURSIVE KillReachable(_, _)
KillReachable(c, X) ==
    LET Y == X \cup UNION {direct_refreshers(Graph, response.cells, s) :
                              s \in (X \cup {c}) \cap response.stale_cells}
    IN IF Y = X THEN X ELSE KillReachable(c, Y)

\* C10: in the result of check_and_link_multiple_cells every stale unit c has
\* stale_links[c] within the units reachable from c by kill edges through
\* stale units and without c, and one more pass of the closure loop over the
\* closed link sets changes nothing.
C10_ClosureIsFixedPoint ==
    (Linked /\ highlights_enabled) =>
        \A c \in response.stale_cells :
            /\ response.stale_links[c] \subseteq KillReachable(c, {})
            /\ c \notin response.stale_links[c]
            /\ \A order \in StaleOrders(Graph, response.cells, TRUE) :
                  closure_pass(response.closed, response.stale_cells, order, 1, FALSE).links
                     = response.closed

\* C11: in the result of check_and_link_multiple_cells, refresher_links is the
\* transpose of stale_links, and neither a key of refresher_links nor a member
\* of a stale_links set is in stale_cells.
C11_RefresherLinksTranspose ==
    Linked =>
        /\ \A r \in response.cells, s \in response.cells :
              (r \in DOMAIN response.refresher_links /\ s \in response.refresher_links[r])
                 <=> (s \in DOMAIN response.stale_links /\ r \in response.stale_links[s])
        /\ \A r \in DOMAIN response.refresher_links :
              r \in response.cells /\ response.refresher_links[r] \subseteq response.cells
        /\ DOMAIN response.refresher_links \cap response.stale_cells = {}
        /\ \A s \in DOMAIN response.stale_links :
              response.stale_links[s] \cap response.stale_cells = {}

\* a stale cell whose closed links hold stale cells and a refresher
C11_Witness ==
    /\ Linked
    /\ \E s \in response.stale_cells :
          /\ response.closed[s] \cap response.stale_cells # {}
          /\ response.stale_links[s] # {}
          /\ \E r \in response.stale_links[s] : Cardinality(response.refresher_links[r]) >= 2

\* the candidates that kill a stale symbol of the live set of c
Killers(c) == {u \in response.cells : Parses(u) /\ Target(u) \in StaleLive(c)}

FreshSetup == <<"v = 1", "u = 1">>
FreshFree == {"print(u, v)", "v = 2", "print(v)"}
FreshBatches == {{"print(u, v)", "print(v)", "v = 2"}}

NextFresh ==
    \/ Submit(FreshSetup, FreshFree)
    \/ ChangeActiveCell(FreshSetup, {"print(u, v)", "print(v)"})
    \/ SetHighlights(FreshSetup)
    \/ CellFreshness(FreshSetup, FreshBatches)
    \/ CellDependencies(FreshSetup)

SpecFresh == Init /\ [][NextFresh]_vars

\* the symbols the loads of a unit resolve to now
LiveSyms(cell) == get_symbols_for_references(Graph, Reads(cell), FALSE)

\* the cell numbers at which a live symbol of the unit, or a member of the
\* namespace of one, was defined
LiveDefinedAt(cell) ==
    {defined_cell_num[s] : s \in LiveSyms(cell)}
    \cup {defined_cell_num[m] : m \in UNION {NsDescendants(s) \cap symbols : s \in LiveSyms(cell) \cap namespaces}}

\* C13 as stated: a unit is in fresh_cells only if it is not stale, has a
\* recorded execution counter, and every live symbol it resolves to was
\* defined at a cell number greater than that counter.
C13_AsStated ==
    Linked =>
        \A c \in response.fresh_cells :
            /\ c \notin response.stale_cells
            /\ StaleLive(c) = {}
            /\ c \in DOMAIN counters_by_cell_id
            /\ \A s \in LiveSyms(c) : defined_cell_num[s] > counters_by_cell_id[c]

\* C13 amended: a unit is in fresh_cells exactly when highlights are on, it
\* parses, it is not stale, it has a recorded execution counter and some live
\* symbol it resolves to (or a member of the namespace of one) was defined at
\* a cell number greater than that counter.
C13_FreshByNewestSymbol ==
    Linked =>
        \A c \in response.cells :
            c \in response.fresh_cells <=>
                /\ highlights_enabled
                /\ Parses(c)
                /\ StaleLive(c) = {}
                /\ c \in DOMAIN counters_by_cell_id
                /\ \E n \in LiveDefinedAt(c) : n > counters_by_cell_id[c]

\* a fresh reader with one live symbol older and one newer than its last run
C13_Witness ==
    /\ Linked
    /\ "print(u, v)" \in response.fresh_cells
    /\ defined_cell_num["u"] < counters_by_cell_id["print(u, v)"]
    /\ defined_cell_num["v"] > counters_by_cell_id["print(u, v)"]

\* the candidates of the checked batch that do not parse
Unparsed == {c \in response.cells : ~Parses(c)}

\* what check_and_link_multiple_cells returns now for the checked batch
\* without its unparsed candidates, for each iteration order of the stale set
WithoutUnparsed ==
    {check_and_link_multiple_cells(Graph, response.cells \ Unparsed, order,
                                   counters_by_cell_id, highlights_enabled) :
        order \in StaleOrders(Graph, response.cells \ Unparsed, highlights_enabled)}

\* C14: a candidate that does not parse is in none of stale_cells, fresh_cells,
\* stale_links and refresher_links, and the result for the other candidates is
\* the result of the same batch without it.
C14_UnparsedCandidateSkipped ==
    Linked =>
        /\ \A c \in Unparsed :
              /\ c \notin response.stale_cells
              /\ c \notin response.fresh_cells
              /\ c \notin DOMAIN response.stale_links
              /\ c \notin DOMAIN response.refresher_links
              /\ \A s \in DOMAIN response.stale_links : c \notin response.stale_links[s]
              /\ \A r \in DOMAIN response.refresher_links : c \notin response.refresher_links[r]
        /\ \E w \in WithoutUnparsed :
              /\ w.stale_cells = response.stale_cells
              /\ w.fresh_cells = response.fresh_cells
              /\ w.stale_links = response.stale_links
              /\ w.refresher_links = response.refresher_links

\* a batch with an unparsed candidate, a stale cell with a refresher and a
\* fresh cell
C14_Witness ==
    /\ Linked
    /\ Unparsed # {}
    /\ \E s \in response.stale_cells : response.stale_links[s] # {}

\* ------------------------------------------------------------------------
\* The execution counter and its reset
\* ------------------------------------------------------------------------

\* a reset that clears the history maps and leaves the version fields alone
reset_symbols_keeping_versions(g) ==
    [g EXCEPT !.used = [s \in Syms |-> IF s \in g.sym THEN EmptyMap ELSE @[s]],
              !.live = [s \in Syms |-> IF s \in g.sym THEN EmptyMap ELSE @[s]]]

\* NotebookSafety.reset_cell_counter, the loop over all_data_symbols()
reset_symbols(g) ==
    [g EXCEPT !.lu = [s \in Syms |-> IF s \in g.sym THEN 0 ELSE @[s]],
              !.def = [s \in Syms |-> IF s \in g.sym THEN 0 ELSE @[s]],
              !.req = [s \in Syms |-> IF s \in g.sym THEN 0 ELSE @[s]],
              !.used = [s \in Syms |-> IF s \in g.sym THEN EmptyMap ELSE @[s]],
              !.live = [s \in Syms |-> IF s \in g.sym THEN EmptyMap ELSE @[s]]]

\* NotebookSafety.reset_cell_counter (store_history is off: the counter is _cell_counter)
reset_cell_counter ==
    /\ SetGraph(reset_symbols(Graph))
    /\ cell_counter' = 1
    /\ UNCHANGED <<last_execution_counter, cell_content_by_counter, last_refused_code,
                   prev_cell_stale_symbols, stale_dependency_detected, active_cell_id,
                   counters_by_cell_id, highlights_enabled, skip_unsafe_cells,
                   last_exec, response, objVars>>

\* --- a session of the test harness, which resets the counter ------------
ResetSetup == <<"v = 1", "w = v">>
ResetFree == {"v = 2", "u = w"}
ResetBatches == {{"u = w", "v = 2"}}

NextReset ==
    \/ Submit(ResetSetup, ResetFree)
    \/ ChangeActiveCell(ResetSetup, {"u = w"})
    \/ SetHighlights(ResetSetup)
    \/ CellFreshness(ResetSetup, ResetBatches)
    \/ CellDependencies(ResetSetup)
    \/ (~InSetup(ResetSetup) /\ reset_cell_counter)

SpecReset == Init /\ [][NextReset]_vars

\* no tracked Symbol carries a timestamp at or above the counter of the next unit
TimestampsBelowCounter ==
    \A s \in symbols :
        /\ defined_cell_num[s] < cell_counter
        /\ required_cell_num[s] < cell_counter
        /\ last_used_cell_num[s] < cell_counter
        /\ \A n \in DOMAIN version_by_used_timestamp[s] : n < cell_counter
        /\ \A n \in DOMAIN version_by_liveness_timestamp[s] : n < cell_counter

\* one step of the counter: it stays, or a unit that was not refused ran under
\* the old value and the counter grew by one, or it was reset
CounterStep ==
    \/ /\ cell_counter' = cell_counter
       /\ last_exec' # last_exec => last_exec'.refused
    \/ /\ cell_counter' = cell_counter + 1
       /\ ~last_exec'.refused
       /\ last_exec'.counter = cell_counter
       /\ cell_counter \in DOMAIN cell_content_by_counter'
    \/ /\ cell_counter' = 1
       /\ \A s \in symbols :
             /\ defined_cell_num'[s] = 0
             /\ required_cell_num'[s] = 0
             /\ last_used_cell_num'[s] = 0
             /\ version_by_used_timestamp'[s] = EmptyMap
             /\ version_by_liveness_timestamp'[s] = EmptyMap
       /\ symbols' = symbols

\* C17: the counter never decreases and grows by exactly one per unit that is
\* executed and not refused, except through reset_cell_counter, which sets it
\* to 1 and in the same step zeroes defined_at, required_at and last_used_at
\* and empties both history maps of every Symbol; no Symbol ever carries a
\* timestamp above the counter.
C17_CounterMonotonicOrReset == [][CounterStep]_vars /\ []TimestampsBelowCounter

C17_Witness ==
    /\ cell_counter = 1
    /\ last_execution_counter > 1
    /\ last_exec.refused
    /\ {"v", "w"} \subseteq symbols
    /\ \A s \in symbols : defined_cell_num[s] = 0 /\ version_by_used_timestamp[s] = EmptyMap

\* ------------------------------------------------------------------------
\* Object identities: runtime objects, the alias table, the namespace registry
\* and the collector.  A heap value h holds, as one record, the runtime
\* bindings and the identity-keyed tables, so that the steps of a handler
\* compose.  Scopes are named by the object they were created for; a DataSymbol
\* is named by the pair <<containing scope, name>>.
\* ------------------------------------------------------------------------
\* whether weakref.ref(obj, callback) succeeds: instances of user classes and
\* classes are weakly referenceable, lists and integers are not
WeaklyReferenceable(h, obj) == obj \in Objs /\ h.kind[obj] \in {"class", "instance"}

\* the next identity the runtime allocates
FreshObj(h) == CHOOSE o \in Objs : h.kind[o] = "none" /\ \A p \in Objs : p < o => h.kind[p] # "none"

\* id(obj) is the object's address: the allocator may hand out the address of an
\* object it has freed, or a new one
Alloc(h, reuse) ==
    LET freed == {o \in Objs : h.kind[o] = "freed"}
    IN IF reuse /\ freed # {} THEN CHOOSE o \in freed : \A p \in freed : o <= p
       ELSE FreshObj(h)

\* the name of a scope object that is being constructed for obj: obj itself,
\* unless a scope was already constructed for an object at that address
FreshScope(h, obj) ==
    IF h.sc[obj] = NoScopeRecord THEN obj
    ELSE CHOOSE s \in Objs : /\ h.sc[s] = NoScopeRecord /\ h.kind[s] = "none"
                             /\ \A p \in Objs : p > s => (h.sc[p] # NoScopeRecord \/ h.kind[p] # "none")

\* Scope._data_symbol_by_name / NamespaceScope's two member tables
Members(h, s) == IF s = GlobalScope THEN h.gtab ELSE h.sc[s].members

PutMember(h, s, name) ==
    IF s = GlobalScope THEN [h EXCEPT !.gtab = @ \cup {name}]
    ELSE [h EXCEPT !.sc[s].members = @ \cup {name}]

\* NamespaceScope.__init__: the scope registers itself under id(obj)
NewNamespaceScope(h, s, obj) ==
    [h EXCEPT !.sc[s] = [obj_id |-> obj, tombstone |-> FALSE, members |-> {},
                         cloned_from |-> NoScope, weak |-> WeaklyReferenceable(h, obj)],
              !.reg[obj] = s]

\* NamespaceScope.update_obj_ref: the scope registers itself under the new
\* identity; the key it was registered under is left in place
ns_update_obj_ref(h, s, obj) ==
    [h EXCEPT !.sc[s].obj_id = obj,
              !.sc[s].tombstone = FALSE,
              !.sc[s].weak = WeaklyReferenceable(h, obj),
              !.reg[obj] = s]

\* NamespaceScope.clone: a scope for obj with the class scope's attributes,
\* empty member tables and the class scope as cloned_from
clone(h, class_scope, s, obj) ==
    LET h1 == NewNamespaceScope(h, s, obj)
        h2 == [h1 EXCEPT !.sc[s] = [h.sc[class_scope] EXCEPT !.cloned_from = class_scope]]
        h3 == ns_update_obj_ref(h2, s, obj)
    IN [h3 EXCEPT !.sc[s].members = {}]

\* an expiry callback that unregisters the scope at once
expired_callback_unregistering(h, s) ==
    [h EXCEPT !.sc[s].tombstone = TRUE,
              !.reg[h.sc[s].obj_id] = NoScope,
              !.sc[s].members = {}]

\* NamespaceScope._obj_reference_expired_callback
obj_reference_expired_callback(h, s) ==
    [h EXCEPT !.sc[s].tombstone = TRUE,
              !.garb = @ \cup {h.sc[s].obj_id}]

\* the runtime frees obj when its last reference goes (reference counting):
\* every scope holding a weak reference to it is called back.  A scope whose
\* reference is strong (weakref.ref raised TypeError) keeps obj alive instead.
RECURSIVE CallBackAll(_, _)
CallBackAll(h, S) ==
    IF S = {} THEN h
    ELSE LET s == CHOOSE x \in S : TRUE
         IN CallBackAll(obj_reference_expired_callback(h, s), S \ {s})

ReleaseObj(h, obj) ==
    IF obj \in Objs /\ h.kind[obj] = "instance" /\ \A n \in GlobalNames : h.ugns[n] # obj
    THEN CallBackAll([h EXCEPT !.dict[obj] = {}, !.kind[obj] = "freed"],
                     {s \in Objs : h.sc[s].obj_id = obj /\ h.sc[s].weak})
    ELSE h

\* a namespace pass that leaves the pending set as it found it
namespace_gc_keeping_pending(h) ==
    LET popped == {h.reg[k] : k \in h.garb} \ {NoScope}
    IN [h EXCEPT !.reg = [k \in ObjKeys |-> IF k \in h.garb THEN NoScope ELSE @[k]],
                 !.sc = [s \in Objs |-> IF s \in popped THEN [@[s] EXCEPT !.members = {}] ELSE @[s]]]

\* NotebookSafety._namespace_gc: pop every pending identity from the registry,
\* clear the popped scope's member tables, empty the pending set
namespace_gc(h) ==
    LET popped == {h.reg[k] : k \in h.garb} \ {NoScope}
    IN [h EXCEPT !.reg = [k \in ObjKeys |-> IF k \in h.garb THEN NoScope ELSE @[k]],
                 !.sc = [s \in Objs |-> IF s \in popped THEN [@[s] EXCEPT !.members = {}] ELSE @[s]],
                 !.garb = {}]

\* NamespaceScope.lookup_data_symbol_by_name_this_indentation: the scope's own
\* table, then the class scope's, unless the object itself holds the attribute
lookup_this_indentation(h, s, name, skip_cloned_lookup) ==
    IF name \in Members(h, s) THEN <<s, name>>
    ELSE IF /\ ~skip_cloned_lookup
            /\ s # GlobalScope
            /\ h.sc[s].cloned_from # NoScope
            /\ ~IsSubscriptName(name)
            /\ h.sc[s].obj_id \in Objs
            /\ name \notin h.dict[h.sc[s].obj_id]
            /\ name \in Members(h, h.sc[s].cloned_from)
         THEN <<h.sc[s].cloned_from, name>>
         ELSE <<NoScope, name>>

\* NamespaceScope.all_data_symbols_this_indentation
all_data_symbols_this_indentation(h, s, exclude_class) ==
    {<<s, n>> : n \in h.sc[s].members}
        \cup (IF h.sc[s].cloned_from # NoScope /\ ~exclude_class
              THEN {<<h.sc[s].cloned_from, n>> : n \in h.sc[h.sc[s].cloned_from].members}
              ELSE {})

\* DataSymbol's alias bookkeeping on (re)binding: the symbol leaves the alias
\* set of the identity it was bound to and joins the new identity's
handle_aliases(h, key, obj) ==
    [h EXCEPT !.ali = [k \in ObjKeys |-> IF k = obj THEN @[k] \cup {key} ELSE @[k] \ {key}],
              !.oid[key] = obj]

\* an upsert that never adds the class's symbol to the dependencies
obj_upsert_without_class_dep(h, s, name, obj, deps) ==
    LET key == <<s, name>>
        old_dsym == lookup_this_indentation(h, s, name, TRUE)
        h1 == IF old_dsym[1] # NoScope THEN h ELSE PutMember(h, s, name)
        h2 == handle_aliases(h1, key, obj)
    IN [h2 EXCEPT !.par[key] = deps \ {key}, !.defd = @ \cup {key}]

\* Scope.upsert_data_symbol_for_name: an existing symbol of the scope's own
\* table is rebound in place; otherwise a new DataSymbol is put in the table,
\* with the class's symbol of that name among its parents when the scope is a
\* clone.  update_deps then replaces the parents.
obj_upsert(h, s, name, obj, deps) ==
    LET key == <<s, name>>
        old_dsym == lookup_this_indentation(h, s, name, TRUE)
        new_dep == IF s # GlobalScope /\ ~IsSubscriptName(name) /\ h.sc[s].cloned_from # NoScope
                   THEN lookup_this_indentation(h, h.sc[s].cloned_from, name, FALSE)
                   ELSE <<NoScope, name>>
        deps1 == IF old_dsym[1] # NoScope \/ new_dep[1] = NoScope THEN deps ELSE deps \cup {new_dep}
        h1 == IF old_dsym[1] # NoScope THEN h ELSE PutMember(h, s, name)
        h2 == handle_aliases(h1, key, obj)
    IN [h2 EXCEPT !.par[key] = deps1 \ {key}, !.defd = @ \cup {key}]

\* NamespaceScope.is_garbage
ns_is_garbage(h, s) ==
    \/ h.sc[s].tombstone
    \/ h.ali[h.sc[s].obj_id] = {}
    \/ h.reg[h.sc[s].obj_id] = NoScope

\* a collector that leaves every symbol in place
symbol_gc_skipped(h) == h

\* NotebookSafety._gc, the symbol pass: a symbol whose containing namespace is
\* garbage leaves the alias table
symbol_gc(h) ==
    LET garbage == {key \in SymKeys : /\ h.oid[key] # NoObj
                                      /\ key[1] # GlobalScope
                                      /\ ns_is_garbage(h, key[1])}
    IN [h EXCEPT !.ali = [k \in ObjKeys |-> @[k] \ garbage],
                 !.oid = [key \in SymKeys |-> IF key \in garbage THEN NoObj ELSE @[key]]]

\* a resync that adds the symbol to the new identity's alias set and leaves it
\* in the old one
resync_symbol_keeping_old_alias(h, name) ==
    LET key == <<GlobalScope, name>>
        obj == h.ugns[name]
    IN IF obj = NoObj \/ h.oid[key] = obj THEN h
       ELSE [h EXCEPT !.ali[obj] = @ \cup {key}, !.oid[key] = obj]

\* NotebookSafety._resync_symbols, the body of the loop for one global symbol:
\* the symbol moves to the alias set of the object the runtime holds, and the
\* namespace registered for its old identity is re-registered under the new one
resync_symbol(h, name) ==
    LET key == <<GlobalScope, name>>
        obj == h.ugns[name]
        old == h.oid[key]
        namespace == h.reg[old]
        h1 == [h EXCEPT !.ali = [k \in ObjKeys |-> IF k = obj THEN @[k] \cup {key} ELSE @[k] \ {key}]]
        h2 == IF namespace = NoScope THEN h1
              ELSE [ns_update_obj_ref(h1, namespace, obj) EXCEPT !.reg[old] = NoScope]
    IN IF obj = NoObj \/ old = obj THEN h
       ELSE [h2 EXCEPT !.oid[key] = obj]

RECURSIVE resync_symbols(_, _)
resync_symbols(h, names) ==
    IF names = {} THEN h
    ELSE LET n == CHOOSE x \in names : TRUE
         IN resync_symbols(resync_symbol(h, n), names \ {n})

\* whether the statement raises (NameError, AttributeError) in the runtime
Raises(h, stmt) ==
    CASE stmt = "foo = Foo()" -> h.ugns["Foo"] \notin Objs
      [] stmt = "foo.a = 2" -> h.ugns["foo"] \notin Objs
      [] stmt = "foo = globals().pop('foo') and Foo()" ->
            h.ugns["foo"] = NoObj \/ h.ugns["Foo"] \notin Objs
      [] stmt \in {"l.append(1)", "random.shuffle(l, random.random)"} -> h.ugns["l"] \notin Objs
      [] stmt = "foo = l" -> h.ugns["l"] = NoObj
      [] OTHER -> FALSE

\* the runtime rebinds a global name, and frees the object it held if this was
\* the last reference to it
Bind(h, name, obj) == ReleaseObj([h EXCEPT !.ugns[name] = obj], h.ugns[name])

\* the statement runs in the runtime.  A class definition gets its scope before
\* its body runs (TraceStatement.get_post_call_scope: make_child_scope(name,
\* obj_id=-1)), and the body's assignment is upserted into that scope.
run_stmt(h, stmt, reuse) ==
    LET o == Alloc(h, reuse)
    IN CASE stmt = "class Foo: a = 1" ->
              LET s == FreshScope(h, o)
                  h1 == NewNamespaceScope([h EXCEPT !.kind[o] = "class", !.dict[o] = {"a"}], s, MinusOne)
              IN Bind(obj_upsert(h1, s, "a", IntObj, {}), "Foo", o)
         [] stmt = "foo = Foo()" -> Bind([h EXCEPT !.kind[o] = "instance"], "foo", o)
         [] stmt = "foo = globals().pop('foo') and Foo()" ->
              \* the old value of foo is dropped before Foo() allocates
              LET h1 == Bind(h, "foo", NoObj)
                  new == Alloc(h1, reuse)
              IN Bind([h1 EXCEPT !.kind[new] = "instance"], "foo", new)
         [] stmt = "foo.a = 2" -> [h EXCEPT !.dict[h.ugns["foo"]] = @ \cup {"a"}]
         [] stmt \in {"l = []", "exec('l = []')"} -> Bind([h EXCEPT !.kind[o] = "list"], "l", o)
         [] stmt = "foo = 5" -> Bind(h, "foo", IntObj)
         [] stmt = "l = 5" -> Bind(h, "l", IntObj)
         [] stmt = "l.append(1)" -> [h EXCEPT !.dict[h.ugns["l"]] = @ \cup {IndexName(Cardinality(@))}]
         [] stmt = "foo = l" -> Bind(h, "foo", h.ugns["l"])
         [] OTHER -> h

\* a mutation event of the tracer's feed: (object identity, mutation kind,
\* argument symbols, argument objects)
MutationRecord(obj_id, event, arg_dsyms, arg_objs) ==
    [obj_id |-> obj_id, event |-> event, arg_dsyms |-> arg_dsyms, arg_objs |-> arg_objs]

\* the DataSymbol a global name resolves to, None when it has none
GlobalDsym(h, name) == IF name \in h.gtab THEN <<GlobalScope, name>> ELSE NoneDsym

\* the tracer appends to its feed the in-place mutations the statement made:
\* an append mutates the list, a call into a module mutates its arguments
trace_mutations(h, stmt) ==
    CASE stmt = "l.append(1)" ->
            [h EXCEPT !.muts = Append(@, MutationRecord(h.ugns["l"], "list_append", {}, <<IntObj>>))]
      [] stmt = "random.shuffle(l, random.random)" ->
            [h EXCEPT !.muts = Append(@, MutationRecord(NoObj, "arg_mutate",
                                                        {GlobalDsym(h, "l"), NoneDsym}, <<h.ugns["l"]>>))]
      [] OTHER -> h

\* DataSymbol.update_deps(deps, overwrite=False, mutated=True): the
\* dependencies are added to the parents and the symbol is updated in this cell
update_deps_mutated(h, key, deps) ==
    [h EXCEPT !.par[key] = @ \cup (deps \ {key, NoneDsym}),
              !.defd = @ \cup {key},
              !.mud = @ \cup {[sym |-> key, deps |-> deps, overwrite |-> FALSE, mutated |-> TRUE]}]

RECURSIVE update_deps_each(_, _, _)
update_deps_each(h, keys, deps) ==
    IF keys = {} THEN h
    ELSE LET key == CHOOSE x \in keys : TRUE
         IN update_deps_each(update_deps_mutated(h, key, deps), keys \ {key}, deps)

\* NotebookSafety.get_first_full_symbol
get_first_full_symbol(h, obj_id) ==
    IF h.ali[obj_id] = {} THEN NoneDsym ELSE CHOOSE key \in h.ali[obj_id] : TRUE

\* a mutation handling that updates one Symbol of the alias set only
handle_mutation_first_alias(h, m) ==
    IF m.event = "arg_mutate"
    THEN update_deps_each(h, m.arg_dsyms \ {NoneDsym}, {})
    ELSE update_deps_each(h, {get_first_full_symbol(h, m.obj_id)} \ {NoneDsym}, m.arg_dsyms)

\* TraceStatement.handle_dependencies, the body of the loop over
\* tracer().mutations for one event
handle_mutation(h, m) ==
    IF m.event = "arg_mutate"
    THEN update_deps_each(h, m.arg_dsyms \ {NoneDsym}, {})
    ELSE LET mutated_obj_id == m.obj_id
             mutated_sym == get_first_full_symbol(h, mutated_obj_id)
             h1 == IF h.reg[mutated_obj_id] = NoScope
                   THEN NewNamespaceScope(h, FreshScope(h, mutated_obj_id), mutated_obj_id)
                   ELSE h
             h2 == IF m.event = "list_append" /\ Len(m.arg_objs) = 1 /\ mutated_sym # NoneDsym
                   THEN obj_upsert(h1, h1.reg[mutated_obj_id],
                                   IndexName(Cardinality(h.dict[mutated_obj_id]) - 1), m.arg_objs[1], {})
                   ELSE h
         IN update_deps_each(h2, h2.ali[mutated_obj_id], m.arg_dsyms)

RECURSIVE handle_mutations(_, _)
handle_mutations(h, ms) ==
    IF ms = <<>> THEN h ELSE handle_mutations(handle_mutation(h, Head(ms)), Tail(ms))

\* TraceStatement._make_lval_data_symbols for the statement that has just run
make_lval_data_symbols_obj(h, stmt) ==
    CASE stmt = "class Foo: a = 1" ->
            \* _make_lval_data_symbols_old: the class scope is re-keyed to the class object
            LET class_obj_id == h.ugns["Foo"]
                class_scope == h.reg[MinusOne]
                h1 == [h EXCEPT !.sc[class_scope].obj_id = class_obj_id,
                                !.reg[class_obj_id] = class_scope]
            IN obj_upsert(h1, GlobalScope, "Foo", class_obj_id, {})
      [] stmt \in {"foo = Foo()", "foo = globals().pop('foo') and Foo()"} ->
            \* the instance gets a clone of its class's namespace
            LET obj == h.ugns["foo"]
                h1 == obj_upsert(h, GlobalScope, "foo", obj, {<<GlobalScope, "Foo">>})
            IN IF h.reg[h.ugns["Foo"]] = NoScope THEN h1
               ELSE clone(h1, h.reg[h.ugns["Foo"]], FreshScope(h1, obj), obj)
      [] stmt = "foo.a = 2" ->
            LET scope == h.reg[h.ugns["foo"]]
            IN IF scope = NoScope THEN h ELSE obj_upsert(h, scope, "a", IntObj, {})
      [] stmt = "l = []" -> obj_upsert(h, GlobalScope, "l", h.ugns["l"], {})
      [] stmt = "foo = 5" -> obj_upsert(h, GlobalScope, "foo", IntObj, {})
      [] stmt = "l = 5" -> obj_upsert(h, GlobalScope, "l", IntObj, {})
      [] stmt = "foo = l" -> obj_upsert(h, GlobalScope, "foo", h.ugns["foo"], {GlobalDsym(h, "l")} \ {NoneDsym})
      [] OTHER -> h

\* TraceStatement.handle_dependencies: the recorded mutations, then the
\* statement's own store
handle_dependencies_obj(h, stmt) ==
    make_lval_data_symbols_obj(handle_mutations([h EXCEPT !.mud = {}], h.muts), stmt)

\* a hook that handles the statement at every firing
finished_execution_hook_every_firing(h, stmt) ==
    namespace_gc([handle_dependencies_obj([h EXCEPT !.seen = @ \cup {stmt}], stmt) EXCEPT !.muts = <<>>])

\* TraceStatement.finished_execution_hook: nothing for a statement node that
\* was seen in this unit; otherwise the node is marked seen, its dependencies
\* are handled, after_stmt_reset_hook empties the feed and _namespace_gc runs
finished_execution_hook_obj(h, stmt) ==
    IF stmt \in h.seen THEN h
    ELSE LET h1 == [h EXCEPT !.seen = @ \cup {stmt}]
             h2 == handle_dependencies_obj(h1, stmt)
             h3 == [h2 EXCEPT !.muts = <<>>]
         IN namespace_gc(h3)

\* the identity-keyed tables as one value
Heap ==
    [kind |-> obj_kind, ugns |-> user_global_ns, dict |-> obj_dict, gtab |-> global_table,
     oid |-> dsym_obj_id, par |-> dsym_parents, ali |-> aliases, reg |-> namespaces_by_id,
     sc |-> scopes, garb |-> garbage_namespace_obj_ids, defd |-> defined_this_cell,
     seen |-> seen_stmts, muts |-> mutations, mud |-> mutation_update_deps]

SetHeap(h) ==
    /\ obj_kind' = h.kind
    /\ user_global_ns' = h.ugns
    /\ obj_dict' = h.dict
    /\ global_table' = h.gtab
    /\ dsym_obj_id' = h.oid
    /\ dsym_parents' = h.par
    /\ aliases' = h.ali
    /\ namespaces_by_id' = h.reg
    /\ scopes' = h.sc
    /\ garbage_namespace_obj_ids' = h.garb
    /\ defined_this_cell' = h.defd
    /\ seen_stmts' = h.seen
    /\ mutations' = h.muts
    /\ mutation_update_deps' = h.mud

\* the identities that hold objects no tracked Symbol is bound to
Orphaned(h) == {k \in Objs : h.kind[k] # "none" /\ h.ali[k] = {}}

pathVars == <<graphVars, safetyVars, last_exec, response, scopeVars, callVars>>

\* safe_execute records the unit under the current counter and hands it to
\* the runtime
StartUnit(unit) ==
    /\ pc = "idle"
    /\ last_execution_counter' = cell_counter
    /\ cell_content_by_counter' = (cell_counter :> unit) @@ cell_content_by_counter
    /\ stmts' = unit
    /\ pc' = "run"
    /\ orphaned_at_start' = Orphaned(Heap)
    /\ UNCHANGED <<heapVars, graphVars, cell_counter, last_refused_code, prev_cell_stale_symbols,
                   stale_dependency_detected, active_cell_id, counters_by_cell_id,
                   highlights_enabled, skip_unsafe_cells, last_exec, response, scopeVars, callVars>>

\* the runtime executes the next statement of the unit; a statement that
\* raises ends the unit
RunStmt ==
    /\ pc = "run"
    /\ IF Raises(Heap, Head(stmts))
       THEN /\ pc' = "end"
            /\ stmts' = <<>>
            /\ UNCHANGED heapVars
       ELSE /\ pc' = "hook"
            /\ \E reuse \in BOOLEAN :
                  SetHeap(trace_mutations(run_stmt(Heap, Head(stmts), reuse), Head(stmts)))
            /\ UNCHANGED stmts
    /\ UNCHANGED <<orphaned_at_start, pathVars>>

\* the tracer fires finished_execution_hook for the statement that has run
finished_execution_hook ==
    /\ pc = "hook"
    /\ SetHeap(finished_execution_hook_obj(Heap, Head(stmts)))
    /\ stmts' = Tail(stmts)
    /\ pc' = IF Tail(stmts) = <<>> THEN "end" ELSE "run"
    /\ UNCHANGED <<orphaned_at_start, pathVars>>

\* the unit has finished: _reset_trace_state_hook runs _gc(), safe_execute
\* resyncs the symbols defined in this cell and increments the counter
FinishUnit ==
    /\ pc = "end"
    /\ LET h1 == symbol_gc(Heap)
           h2 == resync_symbols(h1, {n \in GlobalNames : /\ <<GlobalScope, n>> \in h1.defd
                                                          /\ h1.oid[<<GlobalScope, n>>] # NoObj})
       IN SetHeap([h2 EXCEPT !.defd = {}, !.seen = {}, !.muts = <<>>])
    /\ pc' = "idle"
    /\ cell_counter' = cell_counter + 1
    /\ UNCHANGED <<stmts, orphaned_at_start, scopeVars, callVars, graphVars, last_execution_counter,
                   cell_content_by_counter, last_refused_code, prev_cell_stale_symbols,
                   stale_dependency_detected, active_cell_id, counters_by_cell_id,
                   highlights_enabled, skip_unsafe_cells, last_exec, response>>

\* --- a session with a class, an instance of it and a list ---------------
ObjSetup == << <<"class Foo: a = 1">>, <<"foo = Foo()">>, <<"l = []", "l.append(1)">> >>
ObjFree == { <<"foo.a = 2">>, <<"foo = 5", "l = 5">>, <<"foo = Foo()">>, <<"foo = 5", "foo.a = 2">>,
             <<"foo = globals().pop('foo') and Foo()">>,
             <<"l = []", "l.append(1)", "exec('l = []')">> }

NextObj ==
    \/ /\ cell_counter <= Len(ObjSetup) + MaxFree
       /\ \E unit \in (IF InSetup(ObjSetup) THEN {ObjSetup[cell_counter]} ELSE ObjFree) :
             StartUnit(unit)
    \/ RunStmt
    \/ finished_execution_hook
    \/ FinishUnit

SpecObj == Init /\ [][NextObj]_vars

\* ------------------------------------------------------------------------
\* Properties of the identity-keyed tables
\* ------------------------------------------------------------------------

\* the registered, live instance namespaces: clones of a class namespace that holds a
InstanceScopes ==
    {s \in Objs : /\ scopes[s].cloned_from # NoScope
                  /\ ~scopes[s].tombstone
                  /\ namespaces_by_id[scopes[s].obj_id] = s
                  /\ "a" \in scopes[scopes[s].cloned_from].members}

\* C15: in an instance namespace cloned from a class namespace holding a,
\* before any instance-level assignment the lookup of a returns the class's
\* Symbol; after an upsert of a into the instance namespace it returns a new
\* Symbol of the instance namespace, and the class Symbol is reachable from the
\* instance only as a parent of that Symbol (the instance namespace does not
\* enumerate it).
C15_ShadowedClassSymbolUnreachable ==
    \A s \in InstanceScopes :
        LET class_sym == <<scopes[s].cloned_from, "a">>
        IN /\ ("a" \notin scopes[s].members /\ "a" \notin obj_dict[scopes[s].obj_id])
                => lookup_this_indentation(Heap, s, "a", FALSE) = class_sym
           /\ "a" \in scopes[s].members
                => /\ lookup_this_indentation(Heap, s, "a", FALSE) = <<s, "a">>
                   /\ class_sym \in dsym_parents[<<s, "a">>]
                   /\ class_sym \notin all_data_symbols_this_indentation(Heap, s, FALSE)

\* C16: an identity no Symbol was bound to when a unit began has no Namespace
\* Scope registered once that unit has finished, whatever the kind of object.
C16_OrphanUnregisteredAfterNextUnit ==
    pc = "idle" => \A k \in orphaned_at_start : namespaces_by_id[k] = NoScope

\* C18: each tracked Symbol is in the alias set of the identity it is bound
\* to and in no other, and the alias sets hold tracked Symbols only.
C18_ExactlyOneAliasSet ==
    \A key \in SymKeys : \A k \in ObjKeys :
        key \in aliases[k] <=> (dsym_obj_id[key] # NoObj /\ dsym_obj_id[key] = k)

C18_Witness ==
    /\ pc = "idle"
    /\ dsym_obj_id[<<GlobalScope, "foo">>] = IntObj
    /\ \E s \in Objs :
          /\ scopes[s].obj_id \in Objs \ {s}
          /\ namespaces_by_id[scopes[s].obj_id] = s
          /\ user_global_ns["l"] = scopes[s].obj_id
          /\ dsym_obj_id[<<GlobalScope, "l">>] = scopes[s].obj_id
          /\ dsym_obj_id[<<s, "[0]">>] = IntObj

\* C19: each entry of the registry maps an identity k to a scope whose obj_id
\* is k, and no scope is registered under two keys.
C19_RegistryKeyedByObjId ==
    /\ \A k \in ObjKeys : namespaces_by_id[k] # NoScope => scopes[namespaces_by_id[k]].obj_id = k
    /\ \A j, k \in ObjKeys :
          (namespaces_by_id[j] # NoScope /\ namespaces_by_id[j] = namespaces_by_id[k]) => j = k

\* a step in which a registered scope loses its registry entry or its members
CollectorStep ==
    \/ \E k \in ObjKeys : namespaces_by_id[k] # NoScope /\ namespaces_by_id'[k] = NoScope
    \/ \E s \in Objs : scopes[s].members # {} /\ scopes'[s].members = {}

\* a step in which a scope is tombstoned changes nothing else of the scope and
\* of the registry, and puts the scope's identity in the pending set
ExpiryOnlyMarks ==
    \A s \in Objs :
        (~scopes[s].tombstone /\ scopes'[s].tombstone) =>
            /\ scopes'[s] = [scopes[s] EXCEPT !.tombstone = TRUE]
            /\ scopes[s].obj_id \in garbage_namespace_obj_ids'
            /\ namespaces_by_id' = namespaces_by_id

C21_LiveScopeNeverCollected ==
    pc = "hook" =>
        LET h == handle_dependencies_obj(Heap, Head(stmts))
        IN \A s \in Objs :
              (/\ h.sc[s].obj_id \in Objs
               /\ ~h.sc[s].tombstone
               /\ h.reg[h.sc[s].obj_id] = s)
              => /\ namespace_gc(h).reg[h.sc[s].obj_id] = s
                 /\ namespace_gc(h).sc[s].members = h.sc[s].members

\* the heap a collector pass is run on: at the end of a statement the
\* namespace pass sees the heap handle_dependencies has left
CollectorHeap == IF pc = "hook" THEN handle_dependencies_obj(Heap, Head(stmts)) ELSE Heap

UpsertIntoClone(s) ==
    /\ pc = "hook"
    /\ Head(stmts) = "foo.a = 2"
    /\ s = namespaces_by_id[user_global_ns["foo"]]
    /\ s # NoScope
    /\ scopes[s].cloned_from # NoScope
    /\ "a" \in scopes[scopes[s].cloned_from].members

ScopeState ==
    [tab |-> _data_symbol_by_name, sub |-> _subscript_data_symbol_by_name,
     syms |-> data_symbols, ref |-> obj_ref]

SetScopeState(t) ==
    /\ _data_symbol_by_name' = t.tab
    /\ _subscript_data_symbol_by_name' = t.sub
    /\ data_symbols' = t.syms
    /\ obj_ref' = t.ref

nonScopeVars == <<graphVars, safetyVars, last_exec, response, heapVars, stmts, pc, orphaned_at_start,
                  callVars>>

\* a parent lookup that does not skip namespace scopes
plain_parent_scope(s) == parent_scope(s)

\* Scope.non_namespace_parent_scope
RECURSIVE non_namespace_parent_scope(_)
non_namespace_parent_scope(s) ==
    IF is_global(s) THEN NoneValue
    ELSE IF is_namespace_scope(parent_scope(s)) THEN non_namespace_parent_scope(parent_scope(s))
    ELSE parent_scope(s)

\* Scope.is_globally_accessible
RECURSIVE is_globally_accessible(_)
is_globally_accessible(s) ==
    is_global(s) \/ (is_namespace_scope(s) /\ is_globally_accessible(parent_scope(s)))

\* DataSymbol.is_subscript
dsym_is_subscript(t, dsym) == t.syms[dsym].symbol_type = "subscript"

\* Scope.data_symbol_by_name / NamespaceScope.data_symbol_by_name: the table
\* asked for, or the exception raised
data_symbol_by_name(t, s, is_subscript) ==
    IF is_namespace_scope(s)
    THEN [raised |-> "none", table |-> IF is_subscript THEN t.sub[s] ELSE t.tab[s]]
    ELSE IF is_subscript THEN [raised |-> "ValueError", table |-> EmptyTable]
    ELSE [raised |-> "none", table |-> t.tab[s]]

\* getattr(self._obj_ref(), '__dict__', {}): a dead reference returns None
obj_ref_dict(t, s) == IF s = "foo" /\ t.ref.alive THEN t.ref.dict ELSE {}

\* a clone lookup that falls back to the class whatever the object holds
RECURSIVE lookup_ignoring_obj_dict(_, _, _, _, _)
lookup_ignoring_obj_dict(t, s, name, is_subscript, skip_cloned_lookup) ==
    IF ~is_namespace_scope(s) THEN t.tab[s][name]
    ELSE LET ret == CASE is_subscript = "None" ->
                           IF t.tab[s][name] # 0 THEN t.tab[s][name] ELSE t.sub[s][name]
                      [] is_subscript = "True" -> t.sub[s][name]
                      [] is_subscript = "False" -> t.tab[s][name]
         IN IF /\ ~skip_cloned_lookup
               /\ ret = 0
               /\ ClonedFrom(s) # NoneValue
               /\ is_subscript # "True"
               /\ isinstance_str(name)
            THEN lookup_ignoring_obj_dict(t, ClonedFrom(s), name, is_subscript, FALSE)
            ELSE ret

\* Scope.lookup_data_symbol_by_name_this_indentation (which ignores its keyword
\* arguments) and NamespaceScope.lookup_data_symbol_by_name_this_indentation
RECURSIVE lookup_data_symbol_by_name_this_indentation(_, _, _, _, _)
lookup_data_symbol_by_name_this_indentation(t, s, name, is_subscript, skip_cloned_lookup) ==
    IF ~is_namespace_scope(s) THEN t.tab[s][name]
    ELSE LET ret == CASE is_subscript = "None" ->
                           IF t.tab[s][name] # 0 THEN t.tab[s][name] ELSE t.sub[s][name]
                      [] is_subscript = "True" -> t.sub[s][name]
                      [] is_subscript = "False" -> t.tab[s][name]
         IN IF /\ ~skip_cloned_lookup
               /\ ret = 0
               /\ ClonedFrom(s) # NoneValue
               /\ is_subscript # "True"
               /\ isinstance_str(name)
               /\ name \notin obj_ref_dict(t, s)
            THEN lookup_data_symbol_by_name_this_indentation(t, ClonedFrom(s), name, is_subscript, FALSE)
            ELSE ret

\* Scope.lookup_data_symbol_by_name
RECURSIVE scope_lookup_data_symbol_by_name(_, _, _)
scope_lookup_data_symbol_by_name(t, s, name) ==
    LET ret == lookup_data_symbol_by_name_this_indentation(t, s, name, "None", FALSE)
    IN IF ret = 0 /\ non_namespace_parent_scope(s) # NoneValue
       THEN scope_lookup_data_symbol_by_name(t, non_namespace_parent_scope(s), name)
       ELSE ret

\* a resolution in which an import outranks a function definition
_resolve_symbol_type_import_first(overwrite, is_subscript, is_function_def, is_import, is_anonymous, class_scope) ==
    IF class_scope # NoneValue /\ (is_function_def \/ is_import) THEN "AssertionError"
    ELSE IF is_import THEN (IF overwrite /\ ~is_subscript THEN "import" ELSE "AssertionError")
    ELSE IF is_function_def THEN (IF overwrite /\ ~is_subscript THEN "function" ELSE "AssertionError")
    ELSE IF class_scope # NoneValue THEN (IF overwrite /\ ~is_subscript THEN "class" ELSE "AssertionError")
    ELSE IF is_subscript THEN "subscript"
    ELSE IF is_anonymous THEN "anonymous"
    ELSE "default"

\* Scope._resolve_symbol_type: the kind, or AssertionError
_resolve_symbol_type(overwrite, is_subscript, is_function_def, is_import, is_anonymous, class_scope) ==
    IF class_scope # NoneValue /\ (is_function_def \/ is_import) THEN "AssertionError"
    ELSE IF is_function_def THEN (IF overwrite /\ ~is_subscript THEN "function" ELSE "AssertionError")
    ELSE IF is_import THEN (IF overwrite /\ ~is_subscript THEN "import" ELSE "AssertionError")
    ELSE IF class_scope # NoneValue THEN (IF overwrite /\ ~is_subscript THEN "class" ELSE "AssertionError")
    ELSE IF is_subscript THEN "subscript"
    ELSE IF is_anonymous THEN "anonymous"
    ELSE "default"

\* a put that stores an attribute under any key
put_unchecked(t, s, name, val) ==
    LET t1 == IF is_namespace_scope(s) /\ dsym_is_subscript(t, val)
              THEN [t EXCEPT !.sub[s][name] = val]
              ELSE [t EXCEPT !.tab[s][name] = val]
    IN [t |-> [t1 EXCEPT !.syms[val].containing_scope = s], raised |-> "none"]

\* Scope.put and NamespaceScope.put
put(t, s, name, val) ==
    IF is_namespace_scope(s) /\ ~dsym_is_subscript(t, val) /\ ~isinstance_str(name)
    THEN [t |-> t, raised |-> "TypeError"]
    ELSE LET t1 == IF is_namespace_scope(s) /\ dsym_is_subscript(t, val)
                   THEN [t EXCEPT !.sub[s][name] = val]
                   ELSE [t EXCEPT !.tab[s][name] = val]
         IN [t |-> [t1 EXCEPT !.syms[val].containing_scope = s], raised |-> "none"]

\* the DataSymbol constructor: a new DataSymbol of the given kind
NewTypedDataSymbol(t, name, symbol_type, obj, s, deps) ==
    [t EXCEPT !.syms = Append(@, [name |-> name, symbol_type |-> symbol_type, obj |-> obj,
                                  containing_scope |-> s, parents |-> deps])]

\* DataSymbol.update_obj_ref
dsym_update_obj_ref(t, dsym, obj) == [t EXCEPT !.syms[dsym].obj = obj]

\* DataSymbol.update_deps, the parents only
dsym_update_deps(t, dsym, deps, overwrite) ==
    [t EXCEPT !.syms[dsym].parents = (IF overwrite THEN deps ELSE @ \cup deps) \ {dsym}]

\* an upsert that replaces a Symbol of another kind without keeping it as a parent
upsert_inner_dropping_old(t, s, name, obj, deps, symbol_type, implicit) ==
    LET old_dsym == lookup_data_symbol_by_name_this_indentation(
                        t, s, name, IF symbol_type = "subscript" THEN "True" ELSE "False", TRUE)
        requested == IF old_dsym = 0 THEN [raised |-> "none", table |-> EmptyTable]
                     ELSE data_symbol_by_name(t, s, dsym_is_subscript(t, old_dsym))
        dsym == Len(t.syms) + 1
        created == put(NewTypedDataSymbol(t, name, symbol_type, obj, s, deps), s, name, dsym)
    IN IF implicit /\ symbol_type # "anonymous" /\ old_dsym # 0
       THEN [t |-> t, dsym |-> 0, old_dsym |-> old_dsym, deps |-> deps, raised |-> "AssertionError"]
       ELSE IF old_dsym # 0 /\ is_globally_accessible(s) /\ requested.raised # "none"
       THEN [t |-> t, dsym |-> 0, old_dsym |-> old_dsym, deps |-> deps, raised |-> requested.raised]
       ELSE IF /\ old_dsym # 0 /\ is_globally_accessible(s)
               /\ requested.table[name] # 0
               /\ t.syms[old_dsym].symbol_type = symbol_type
       THEN [t |-> dsym_update_obj_ref(t, old_dsym, obj), dsym |-> old_dsym, old_dsym |-> old_dsym,
             deps |-> deps, raised |-> "none"]
       ELSE [t |-> created.t, dsym |-> IF created.raised = "none" THEN dsym ELSE 0,
             old_dsym |-> old_dsym, deps |-> deps, raised |-> created.raised]

\* Scope._upsert_data_symbol_for_name_inner: the tables and DataSymbols after
\* the call, the DataSymbol returned, the one found, the dependency set as the
\* call has left it, and the exception raised
_upsert_data_symbol_for_name_inner(t, s, name, obj, deps, symbol_type, implicit) ==
    LET old_dsym == lookup_data_symbol_by_name_this_indentation(
                        t, s, name, IF symbol_type = "subscript" THEN "True" ELSE "False", TRUE)
        requested == IF old_dsym = 0 THEN [raised |-> "none", table |-> EmptyTable]
                     ELSE data_symbol_by_name(t, s, dsym_is_subscript(t, old_dsym))
        deps1 == IF old_dsym # 0 /\ is_globally_accessible(s) THEN deps \cup {old_dsym} ELSE deps
        new_dep == IF is_namespace_scope(s) /\ symbol_type = "default" /\ ClonedFrom(s) # NoneValue
                   THEN lookup_data_symbol_by_name_this_indentation(t, ClonedFrom(s), name, "False", FALSE)
                   ELSE 0
        deps2 == IF new_dep # 0 THEN deps1 \cup {new_dep} ELSE deps1
        dsym == Len(t.syms) + 1
        created == put(NewTypedDataSymbol(t, name, symbol_type, obj, s, deps2), s, name, dsym)
    IN IF implicit /\ symbol_type # "anonymous" /\ old_dsym # 0
       THEN [t |-> t, dsym |-> 0, old_dsym |-> old_dsym, deps |-> deps, raised |-> "AssertionError"]
       ELSE IF old_dsym # 0 /\ is_globally_accessible(s) /\ requested.raised # "none"
       THEN [t |-> t, dsym |-> 0, old_dsym |-> old_dsym, deps |-> deps, raised |-> requested.raised]
       ELSE IF /\ old_dsym # 0 /\ is_globally_accessible(s)
               /\ requested.table[name] # 0
               /\ t.syms[old_dsym].symbol_type = symbol_type
       THEN [t |-> dsym_update_obj_ref(t, old_dsym, obj), dsym |-> old_dsym, old_dsym |-> old_dsym,
             deps |-> deps, raised |-> "none"]
       ELSE [t |-> created.t, dsym |-> IF created.raised = "none" THEN dsym ELSE 0,
             old_dsym |-> old_dsym, deps |-> deps2, raised |-> created.raised]

\* Scope.upsert_data_symbol_for_name on the scope tree
scope_upsert_data_symbol_for_name(t, s, name, obj, deps, overwrite, is_subscript, is_function_def, is_import, is_anonymous, class_scope, implicit) ==
    LET symbol_type == _resolve_symbol_type(overwrite, is_subscript, is_function_def, is_import,
                                            is_anonymous, class_scope)
        r == _upsert_data_symbol_for_name_inner(t, s, name, obj, deps, symbol_type, implicit)
    IN IF symbol_type = "AssertionError"
       THEN [t |-> t, dsym |-> 0, old_dsym |-> 0, deps |-> deps, raised |-> "AssertionError",
             symbol_type |-> "none"]
       ELSE IF r.raised # "none"
       THEN [t |-> r.t, dsym |-> 0, old_dsym |-> r.old_dsym, deps |-> r.deps, raised |-> r.raised,
             symbol_type |-> symbol_type]
       ELSE [t |-> dsym_update_deps(r.t, r.dsym, r.deps, overwrite), dsym |-> r.dsym,
             old_dsym |-> r.old_dsym, deps |-> r.deps, raised |-> "none", symbol_type |-> symbol_type]

\* a caller upserts name, bound to obj, into scope s; limit bounds the
\* DataSymbols of the session
ScopeUpsert(s, name, obj, flags, limit) ==
    LET r == scope_upsert_data_symbol_for_name(
                 ScopeState, s, name, obj, {}, flags[1], flags[2], flags[3], flags[4], flags[5],
                 IF flags[6] THEN "Foo" ELSE NoneValue, FALSE)
    IN /\ Len(r.t.syms) <= limit
       /\ SetScopeState(r.t)
       /\ scope_call' = [op |-> "upsert", scope |-> s, name |-> name, flags |-> flags, obj |-> obj,
                         symbol_type |-> r.symbol_type,
                         is_subscript |-> IF flags[2] THEN "True" ELSE "False",
                         skip_cloned_lookup |-> TRUE,
                         ret |-> r.dsym, old |-> r.old_dsym, raised |-> r.raised]
       /\ UNCHANGED nonScopeVars

\* --- upserts of every kind into the global scope and a class namespace ---
AllFlags == [1 .. 6 -> BOOLEAN]

\* the calls of the session: one per kind, and calls that set two of
\* is_function_def, is_import and class_scope, or a kind flag with is_subscript
KindFlags ==
    { NoFlags,
      <<TRUE, TRUE, FALSE, FALSE, FALSE, FALSE>>,
      <<TRUE, FALSE, TRUE, FALSE, FALSE, FALSE>>,
      <<TRUE, FALSE, FALSE, TRUE, FALSE, FALSE>>,
      <<TRUE, FALSE, FALSE, FALSE, TRUE, FALSE>>,
      <<TRUE, FALSE, FALSE, FALSE, FALSE, TRUE>>,
      <<TRUE, FALSE, TRUE, TRUE, FALSE, FALSE>>,
      <<TRUE, FALSE, TRUE, FALSE, FALSE, TRUE>>,
      <<TRUE, TRUE, FALSE, TRUE, FALSE, FALSE>>,
      <<FALSE, FALSE, FALSE, FALSE, FALSE, TRUE>> }

\* each call binds the name to another value than the call before
NextObjValue == IF scope_call.obj = 1 THEN 2 ELSE 1

NextKinds ==
    \/ \E flags \in {f \in KindFlags : ~f[2]} :
          ScopeUpsert("<module>", "a", NextObjValue, flags, MaxSyms)
    \/ \E flags \in {f \in KindFlags : f[1] /\ ~f[4] /\ ~f[5] /\ ~f[6]} :
          ScopeUpsert("Foo", "a", NextObjValue, flags, MaxSyms)

SpecKinds == Init /\ [][NextKinds]_vars

\* C23: an upsert into a globally reachable scope whose table already holds a
\* Symbol under the name: when the Symbol's kind is the resolved kind, that
\* Symbol is returned, rebound to the new value, and no Symbol is created; when
\* the kinds differ, a new Symbol takes its place in the table and has the old
\* Symbol among its parents.  No Symbol's kind changes.
UpsertOverExisting ==
    /\ scope_call'.op = "upsert"
    /\ scope_call'.raised = "none"
    /\ scope_call'.old # 0
    /\ is_globally_accessible(scope_call'.scope)

C23_InPlaceIffSameKind ==
    [][/\ \A d \in 1 .. Len(data_symbols) : data_symbols'[d].symbol_type = data_symbols[d].symbol_type
       /\ UpsertOverExisting =>
            LET call == scope_call'
                table == IF call.symbol_type = "subscript"
                         THEN _subscript_data_symbol_by_name'[call.scope]
                         ELSE _data_symbol_by_name'[call.scope]
            IN IF data_symbols[call.old].symbol_type = call.symbol_type
               THEN /\ call.ret = call.old
                    /\ Len(data_symbols') = Len(data_symbols)
                    /\ data_symbols'[call.old].obj = call.obj
                    /\ table[call.name] = call.old
               ELSE /\ call.ret = Len(data_symbols) + 1
                    /\ Len(data_symbols') = Len(data_symbols) + 1
                    /\ table[call.name] = call.ret
                    /\ call.old \in data_symbols'[call.ret].parents
                    /\ data_symbols'[call.ret].symbol_type = call.symbol_type]_vars

C23_Witness ==
    /\ scope_call.op = "upsert"
    /\ scope_call.scope = "<module>"
    /\ scope_call.old = 1
    /\ scope_call.ret = 2
    /\ data_symbols[1].symbol_type = "function"
    /\ data_symbols[2].symbol_type = "default"
    /\ data_symbols[2].parents = {1}
    /\ _data_symbol_by_name["<module>"]["a"] = 2

\* the kind the precedence function-def > import > class > subscript >
\* anonymous > default picks for the keyword arguments
KindByPrecedence(flags) ==
    IF flags[3] THEN "function"
    ELSE IF flags[4] THEN "import"
    ELSE IF flags[6] THEN "class"
    ELSE IF flags[2] THEN "subscript"
    ELSE IF flags[5] THEN "anonymous"
    ELSE "default"

ResolvedKind(flags) ==
    _resolve_symbol_type(flags[1], flags[2], flags[3], flags[4], flags[5],
                         IF flags[6] THEN "Foo" ELSE NoneValue)

\* more than one of is_function_def, is_import and class_scope is set
SeveralKindFlags(flags) ==
    (flags[3] /\ flags[4]) \/ (flags[3] /\ flags[6]) \/ (flags[4] /\ flags[6])

\* C24 as stated: the kind is picked by the precedence, and every call that
\* sets more than one of is_function_def, is_import and class_scope is
\* rejected with an assertion failure.
C24_AsStated ==
    scope_call.op = "upsert" =>
        /\ scope_call.raised = "none" => scope_call.symbol_type = KindByPrecedence(scope_call.flags)
        /\ SeveralKindFlags(scope_call.flags) => scope_call.raised = "AssertionError"

\* C24: a call that is not rejected gets the kind the precedence picks; the
\* calls rejected with an assertion failure are those that give class_scope
\* together with is_function_def or is_import, and those that ask for a
\* function, import or class Symbol with is_subscript set or overwrite unset;
\* is_function_def together with is_import is accepted as a function.  A
\* rejected call creates and modifies no Symbol.
C24_PrecedenceAndContract ==
    /\ [](\A flags \in AllFlags :
            /\ ResolvedKind(flags) \in {KindByPrecedence(flags), "AssertionError"}
            /\ ResolvedKind(flags) = "AssertionError"
                 <=> \/ flags[6] /\ (flags[3] \/ flags[4])
                     \/ (flags[3] \/ flags[4] \/ flags[6]) /\ (~flags[1] \/ flags[2]))
    /\ [](scope_call.op = "upsert" =>
            /\ scope_call.raised = "AssertionError" <=> ResolvedKind(scope_call.flags) = "AssertionError"
            /\ scope_call.raised = "none" => scope_call.symbol_type = ResolvedKind(scope_call.flags))
    /\ [][(scope_call'.op = "upsert" /\ scope_call'.raised = "AssertionError")
            => UNCHANGED <<_data_symbol_by_name, _subscript_data_symbol_by_name, data_symbols>>]_vars

C24_Witness ==
    /\ scope_call.op = "upsert"
    /\ scope_call.flags[3] /\ scope_call.flags[6]
    /\ scope_call.raised = "AssertionError"
    /\ Len(data_symbols) > 0
    /\ _data_symbol_by_name["<module>"]["a"] # 0

\* a caller looks name up in scope s alone
ScopeLookupThisIndentation(s, name, is_subscript, skip_cloned_lookup) ==
    /\ scope_call' = [NoCall EXCEPT
            !.op = "lookup_this", !.scope = s, !.name = name, !.is_subscript = is_subscript,
            !.skip_cloned_lookup = skip_cloned_lookup,
            !.ret = lookup_data_symbol_by_name_this_indentation(ScopeState, s, name, is_subscript,
                                                                skip_cloned_lookup)]
    /\ UNCHANGED <<_data_symbol_by_name, _subscript_data_symbol_by_name, data_symbols, obj_ref,
                   nonScopeVars>>

\* a caller looks name up from scope s
ScopeLookup(s, name) ==
    /\ scope_call' = [NoCall EXCEPT !.op = "lookup", !.scope = s, !.name = name,
                                    !.ret = scope_lookup_data_symbol_by_name(ScopeState, s, name)]
    /\ UNCHANGED <<_data_symbol_by_name, _subscript_data_symbol_by_name, data_symbols, obj_ref,
                   nonScopeVars>>

\* a caller asks scope s for one of its tables
RequestTable(s, is_subscript) ==
    /\ scope_call' = [NoCall EXCEPT !.op = "table", !.scope = s,
                                    !.is_subscript = IF is_subscript THEN "True" ELSE "False",
                                    !.raised = data_symbol_by_name(ScopeState, s, is_subscript).raised]
    /\ UNCHANGED <<_data_symbol_by_name, _subscript_data_symbol_by_name, data_symbols, obj_ref,
                   nonScopeVars>>

\* the runtime stores the attribute in the object itself (foo.__dict__)
StoreAttr(name) ==
    /\ obj_ref.alive
    /\ name \notin obj_ref.dict
    /\ obj_ref' = [obj_ref EXCEPT !.dict = @ \cup {name}]
    /\ UNCHANGED <<_data_symbol_by_name, _subscript_data_symbol_by_name, data_symbols, scope_call,
                   nonScopeVars>>

\* the runtime frees the object: the weak reference returns None from now on
ExpireObjRef ==
    /\ obj_ref.alive
    /\ obj_ref' = [alive |-> FALSE, dict |-> {}]
    /\ UNCHANGED <<_data_symbol_by_name, _subscript_data_symbol_by_name, data_symbols, scope_call,
                   nonScopeVars>>

\* --- a session with a global a, a class attribute Foo.a and members of foo --
LookupSetup == << <<"<module>", "a">>, <<"Foo", "a">> >>
LookupFree ==
    { <<"foo", "a", FALSE>>, <<"foo", "a", TRUE>>, <<"foo", "0", TRUE>>, <<"foo", "0", FALSE>>,
      <<"Foo.f", "a", FALSE>>, <<"Foo.f.g", "a", FALSE>>, <<"foo.b", "a", FALSE>> }

NextLookup ==
    \/ /\ Len(data_symbols) < Len(LookupSetup)
       /\ LET target == LookupSetup[Len(data_symbols) + 1]
          IN ScopeUpsert(target[1], target[2], 1, NoFlags, Len(LookupSetup))
    \/ /\ Len(data_symbols) >= Len(LookupSetup)
       /\ \E target \in LookupFree :
             ScopeUpsert(target[1], target[2], 1, [NoFlags EXCEPT ![2] = target[3]],
                         Len(LookupSetup) + MaxSyms)
    \/ /\ Len(data_symbols) >= Len(LookupSetup)
       /\ \E is_subscript \in {"None", "True", "False"}, skip_cloned_lookup \in BOOLEAN :
             ScopeLookupThisIndentation("foo", "a", is_subscript, skip_cloned_lookup)
    \/ /\ Len(data_symbols) >= Len(LookupSetup)
       /\ \E s \in {"Foo.f", "Foo.f.g", "foo.b", "foo"} : ScopeLookup(s, "a")
    \/ /\ Len(data_symbols) >= Len(LookupSetup)
       /\ \E s \in {"<module>", "Foo.f", "foo"}, is_subscript \in BOOLEAN : RequestTable(s, is_subscript)
    \/ (Len(data_symbols) >= Len(LookupSetup) /\ StoreAttr("a"))
    \/ (Len(data_symbols) >= Len(LookupSetup) /\ ExpireObjRef)

SpecLookup == Init /\ [][NextLookup]_vars

RECURSIVE AncestorsOf(_)
AncestorsOf(s) ==
    IF parent_scope(s) = NoneValue THEN {} ELSE {parent_scope(s)} \cup AncestorsOf(parent_scope(s))

Depth(s) == Cardinality(AncestorsOf(s))

\* the scopes a lookup from s may take a Symbol from: s itself and its
\* ancestors that are not namespace scopes
VisibleFrom(s) == {s} \cup {c \in AncestorsOf(s) : ~is_namespace_scope(c)}

\* what scope c alone answers for name
HeldBy(c, name) == lookup_data_symbol_by_name_this_indentation(ScopeState, c, name, "None", FALSE)

\* C27: a lookup by name from scope s returns what the nearest scope among s
\* and its ancestors that are not namespace scopes holds under the name, and
\* None when none of them holds it: a namespace scope above s is never asked,
\* and the global scope is asked last.
C27_NearestNonNamespaceAncestor ==
    [][(scope_call' # scope_call /\ scope_call'.op = "lookup") =>
         LET s == scope_call'.scope
             name == scope_call'.name
             holders == {c \in VisibleFrom(s) : HeldBy(c, name) # 0}
         IN IF holders = {} THEN scope_call'.ret = 0
            ELSE \E c \in holders :
                    /\ \A c2 \in holders : Depth(c2) <= Depth(c)
                    /\ scope_call'.ret = HeldBy(c, name)]_vars

C27_Witness ==
    /\ scope_call.op = "lookup"
    /\ scope_call.scope = "Foo.f.g"
    /\ _data_symbol_by_name["Foo.f.g"]["a"] = 0
    /\ _data_symbol_by_name["Foo.f"]["a"] = 0
    /\ _data_symbol_by_name["Foo"]["a"] # 0
    /\ scope_call.ret = _data_symbol_by_name["<module>"]["a"]
    /\ scope_call.ret # 0

\* C28: in a namespace scope, the subscript table holds subscript Symbols only
\* and the attribute table holds non-subscript Symbols under string keys only;
\* a put of a non-subscript Symbol under a key that is not a string raises
\* TypeError and leaves the tables as they were; a plain Scope asked for its
\* subscript table raises ValueError.
C28_TablesKeptApart ==
    /\ [](\A s \in {c \in ScopeNames : is_namespace_scope(c)} : \A name \in TableNames :
            /\ _data_symbol_by_name[s][name] # 0
                 => /\ isinstance_str(name)
                    /\ data_symbols[_data_symbol_by_name[s][name]].symbol_type # "subscript"
            /\ _subscript_data_symbol_by_name[s][name] # 0
                 => data_symbols[_subscript_data_symbol_by_name[s][name]].symbol_type = "subscript")
    /\ [][(scope_call' # scope_call /\ scope_call'.op = "upsert") =>
            /\ scope_call'.raised = "TypeError"
                 <=> /\ is_namespace_scope(scope_call'.scope)
                     /\ ~isinstance_str(scope_call'.name)
                     /\ scope_call'.symbol_type # "subscript"
            /\ scope_call'.raised = "TypeError"
                 => UNCHANGED <<_data_symbol_by_name, _subscript_data_symbol_by_name>>]_vars
    /\ [](scope_call.op = "table" =>
            (scope_call.raised = "ValueError"
                <=> (~is_namespace_scope(scope_call.scope) /\ scope_call.is_subscript = "True")))

C28_Witness ==
    /\ scope_call.op = "upsert"
    /\ scope_call.raised = "TypeError"
    /\ scope_call.scope = "foo"
    /\ scope_call.name = "0"
    /\ _subscript_data_symbol_by_name["foo"]["0"] # 0
    /\ _data_symbol_by_name["foo"]["0"] = 0

\* --- a session that deletes a name, an attribute and a subscript member ---
DelSetup == <<"v = 1", "w = v", "d = DotDict()", "d.y = 10", "d['x'] = {}">>
DelFree == {"del v", "del d.y", "del d['x']", "u = w", "v = 2", "d.y = 10", "d['x'] = {}", "y = 1"}

NextDel ==
    \/ Submit(DelSetup, DelFree)
    \/ SetHighlights(DelSetup)

SpecDel == Init /\ [][NextDel]_vars

\* the step runs a del statement whose target s is tracked
DeletionOf(s) ==
    /\ last_exec'.counter # last_exec.counter
    /\ ~last_exec'.refused
    /\ DelTarget(last_exec'.ran) = s
    /\ s \in symbols

\* C29: a deletion through delete_data_symbol_for_name, of a plain name, an
\* attribute member or a subscript member alike, removes the Symbol from its
\* table, clears its parents, leaves its required_at at its last value and
\* does not bump its defined_at.
C29_DeletionFinalizesAlike ==
    [][\A s \in Syms : DeletionOf(s) =>
            /\ s \notin symbols'
            /\ parents'[s] = {}
            /\ required_cell_num'[s] = required_cell_num[s]
            /\ defined_cell_num'[s] = defined_cell_num[s]]_vars

\* --- resolving attribute chains against the session's symbols -------------
Chains == {<<"d">>, <<"x">>, <<"d", "d.x">>, <<"d", "d.y">>, <<"d", "d.x", "d.x.a">>,
           <<"d", "d.y", "d.y.a">>}
CallChains == {<<"d()">>, <<"d", "d.x()">>, <<"d", "d.y()">>}

\* every token of the chain is a name that its scope's lookup resolves
EveryTokenResolved(g, chain) ==
    \A i \in 1 .. Len(chain) :
        /\ ~IsCallPoint(chain[i])
        /\ lookup_data_symbol_by_name(g, IF i = 1 THEN NoSym ELSE chain[i - 1], chain[i]) # NoSym

\* the loop gets as far as the last token of the chain
ReachesLastToken(g, chain) ==
    \A i \in 1 .. Len(chain) - 1 : chain[i] \in g.sym /\ chain[i] \in g.ns

\* C30: get_most_specific_data_symbol_for_attrsub_chain succeeds exactly when
\* every token of the chain resolved to a Symbol, so a single resolvable name
\* succeeds whether or not its value has a registered namespace; at a call
\* boundary it returns the Symbol matched so far, the called name's Symbol
\* as the next Symbol, and no success.
C30_SuccessIffEveryTokenResolved ==
    /\ \A chain \in Chains :
           get_most_specific_data_symbol_for_attrsub_chain(Graph, chain).success
               <=> EveryTokenResolved(Graph, chain)
    /\ \A chain \in CallChains :
           ReachesLastToken(Graph, chain) =>
               LET m == get_most_specific_data_symbol_for_attrsub_chain(Graph, chain)
                   n == Len(chain)
               IN /\ ~m.success
                  /\ m.dsym = (IF n = 1 THEN NoSym ELSE chain[n - 1])
                  /\ m.next_dsym = lookup_data_symbol_by_name(
                         Graph, IF n = 1 THEN NoSym ELSE chain[n - 1], CallPointSymbol(chain[n]))

\* --- a member that does not resolve under a resolved parent ---------------
MemberChains == {<<"d", "d.x">>, <<"d", "d.y">>}

\* chain[2] does not resolve although chain[1] resolved to a Symbol whose
\* value has a registered namespace
UnresolvedUnderParent(g, chain) ==
    /\ chain[1] \in g.sym
    /\ chain[1] \in g.ns
    /\ lookup_data_symbol_by_name(g, chain[1], chain[2]) = NoSym

\* the test the loop makes on the parent before it gives up (scope.py 126)
WholeNamespaceStale(g, P) == is_stale(g, P) /\ g.def[P] >= g.req[P]

\* C31: when a token fails to resolve after its parent resolved to P and no
\* deeper match exists, P is returned with success = true if P's staleness
\* accounts for the cell number in question, and the resolution fails otherwise.
C31_ParentCountsAsSuccess ==
    \A chain \in MemberChains :
        UnresolvedUnderParent(Graph, chain) =>
            LET m == get_most_specific_data_symbol_for_attrsub_chain(Graph, chain)
            IN IF WholeNamespaceStale(Graph, chain[1])
               THEN ~m.success
               ELSE m.dsym = chain[1] /\ m.success

\* the Symbols a chain may resolve to when every token after the first is
\* looked up among the members of the preceding value's namespace only
AlongChain(chain) == {NoSym} \cup {chain[i] : i \in 1 .. Len(chain)}

\* C32: in chain resolution every token after the first is resolved only
\* among the members of the preceding value's namespace: a chain a.b where
\* a's namespace has no member b never resolves b to a Symbol of the same
\* name held by an enclosing or the global scope.
C32_MembersOnlyFromNamespace ==
    \A chain \in MemberChains :
        LET m == get_most_specific_data_symbol_for_attrsub_chain(Graph, chain)
        IN m.dsym \in AlongChain(chain) /\ m.next_dsym \in AlongChain(chain)

\* ------------------------------------------------------------------------
\* Precheck (precheck.py)
\* ------------------------------------------------------------------------

\* --- syntax trees: expression nodes that can be targets -------------------
Name(id) == [type |-> "Name", id |-> id, elts |-> <<>>]
Tuple(elts) == [type |-> "Tuple", id |-> "", elts |-> elts]
List(elts) == [type |-> "List", id |-> "", elts |-> elts]
\* value[...] and value.attr, value being the Name id
Subscript(id) == [type |-> "Subscript", id |-> id, elts |-> <<>>]
Attribute(id) == [type |-> "Attribute", id |-> id, elts |-> <<>>]

\* --- statement nodes; `value` is the set of Names in the expressions of the
\* statement that are not targets (right-hand side, test, iterable, defaults)
Assign(targets, value) ==
    [type |-> "Assign", name |-> "", targets |-> targets, value |-> value, body |-> <<>>]
AugAssign(target, value) ==
    [type |-> "AugAssign", name |-> "", targets |-> <<target>>, value |-> value, body |-> <<>>]
Expr(value) ==
    [type |-> "Expr", name |-> "", targets |-> <<>>, value |-> value, body |-> <<>>]
If(test, body) ==
    [type |-> "If", name |-> "", targets |-> <<>>, value |-> test, body |-> body]
For(target, iter, body) ==
    [type |-> "For", name |-> "", targets |-> <<target>>, value |-> iter, body |-> body]
ClassDef(name, body) ==
    [type |-> "ClassDef", name |-> name, targets |-> <<>>, value |-> {}, body |-> body]
\* the body of a function is looked at by neither visitor
FunctionDef(name, defaults) ==
    [type |-> "FunctionDef", name |-> name, targets |-> <<>>, value |-> defaults, body |-> <<>>]

\* the Name nodes inside a target expression
TargetNames(target) ==
    IF target.type \in {"Tuple", "List"}
    THEN {target.elts[i].id : i \in 1 .. Len(target.elts)} \ {""}
    ELSE {target.id}

\* the ids of the elements of a Tuple target that are Names
NameElts(target) ==
    {target.elts[i].id : i \in {j \in 1 .. Len(target.elts) : target.elts[j].type = "Name"}}

\* get_all_names: GetAllNames collects every Name under the node, but under a
\* FunctionDef only those of the default arguments
RECURSIVE get_all_names(_)
get_all_names(node) ==
    IF node.type = "FunctionDef" THEN node.value
    ELSE node.value
         \cup UNION {TargetNames(node.targets[i]) : i \in 1 .. Len(node.targets)}
         \cup UNION {get_all_names(node.body[i]) : i \in 1 .. Len(node.body)}

\* PreCheck.visit_Assign from target i on: a Subscript is skipped; the Name
\* elements of a Tuple are added; then a Name is added and anything else,
\* the Tuple included, raises
RECURSIVE visit_Assign(_, _, _)
visit_Assign(node, i, safe_set) ==
    IF i > Len(node.targets) THEN [safe_set |-> safe_set, raised |-> FALSE]
    ELSE LET target_node == node.targets[i]
         IN IF target_node.type = "Subscript" THEN visit_Assign(node, i + 1, safe_set)
            ELSE LET s1 == IF target_node.type = "Tuple"
                           THEN safe_set \cup NameElts(target_node) ELSE safe_set
                 IN IF target_node.type = "Name"
                    THEN visit_Assign(node, i + 1, s1 \cup {target_node.id})
                    ELSE [safe_set |-> s1, raised |-> TRUE]

\* PreCheck.visit_AugAssign
visit_AugAssign(node, safe_set) ==
    LET target_node == node.targets[1]
    IN IF target_node.type = "Subscript" THEN [safe_set |-> safe_set, raised |-> FALSE]
       ELSE IF target_node.type = "Name"
       THEN [safe_set |-> safe_set \cup {target_node.id}, raised |-> FALSE]
       ELSE [safe_set |-> safe_set, raised |-> TRUE]

\* PreCheck.visit_FunctionDef
visit_FunctionDef(node, safe_set) == [safe_set |-> safe_set \cup {node.name}, raised |-> FALSE]

\* the target part of PreCheck.visit_For: the elements of a Tuple in order,
\* raising at the first that is no Name
visit_For_target(node, safe_set) ==
    LET target == node.targets[1]
    IN IF target.type = "Tuple"
       THEN LET bad == {j \in 1 .. Len(target.elts) : target.elts[j].type # "Name"}
                first_bad == IF bad = {} THEN Len(target.elts) + 1
                             ELSE CHOOSE j \in bad : \A k \in bad : j <= k
            IN [safe_set |-> safe_set \cup {target.elts[j].id : j \in 1 .. first_bad - 1},
                raised |-> bad # {}]
       ELSE IF target.type = "Name" THEN [safe_set |-> safe_set \cup {target.id}, raised |-> FALSE]
       ELSE [safe_set |-> safe_set, raised |-> TRUE]

\* NodeVisitor.visit on a statement: the visit_<type> method where PreCheck
\* has one, else generic_visit, which visits the child statements in order.
\* visit_body visits the statements of a body from the i-th on.
RECURSIVE visit(_, _)
RECURSIVE visit_body(_, _, _)
visit(node, safe_set) ==
    CASE node.type = "Assign" -> visit_Assign(node, 1, safe_set)
      [] node.type = "AugAssign" -> visit_AugAssign(node, safe_set)
      [] node.type = "FunctionDef" -> visit_FunctionDef(node, safe_set)
      [] node.type = "For" ->
            LET r == visit_For_target(node, safe_set)
            IN IF r.raised THEN r ELSE visit_body(node.body, 1, r.safe_set)
      [] OTHER -> visit_body(node.body, 1, safe_set)

visit_body(body, i, safe_set) ==
    IF i > Len(body) THEN [safe_set |-> safe_set, raised |-> FALSE]
    ELSE LET r == visit(body[i], safe_set)
         IN IF r.raised THEN r ELSE visit_body(body, i + 1, r.safe_set)

\* one round of the loop of PreCheck.__call__ on the top-level statement node
precheck_node(c, node) ==
    LET r == visit(node, c.safe_set)
    IN IF r.raised
       THEN [c EXCEPT !.status = "raised", !.visited = @ + 1, !.safe_set = r.safe_set]
       ELSE [c EXCEPT !.visited = @ + 1,
                      !.safe_set = r.safe_set,
                      !.check_set = @ \cup {name \in get_all_names(node) :
                                               name \in c.name_set /\ name \notin r.safe_set},
                      !.status = IF c.visited + 1 = Len(c.module_node) THEN "returned" ELSE "running"]

\* --- the units prechecked, with their source ------------------------------
PrecheckUnits ==
    { << Assign(<<Name("x")>>, {"x"}) >>,                                 \* x = x + 1
      << AugAssign(Name("x"), {}) >>,                                     \* x += 1
      << Assign(<<Name("x")>>, {}), Expr({"x"}) >>,                       \* x = 1; print(x)
      << Expr({"x"}), Assign(<<Name("x")>>, {}) >>,                       \* print(x); x = 1
      << If({"y"}, <<Assign(<<Name("x")>>, {})>>), Expr({"x"}) >>,        \* if y: x = 1 / print(x)
      << ClassDef("A", <<Assign(<<Name("x")>>, {})>>), Expr({"x"}) >>,    \* class A: x = 1 / print(x)
      << For(Name("x"), {"y"}, <<Expr({"x"})>>), Expr({"x"}) >>,          \* for x in y: print(x) / print(x)
      << For(Tuple(<<Name("x"), Subscript("y")>>), {"z"}, <<>>) >>,       \* for x, y[0] in z: pass
      << For(Attribute("y"), {"z"}, <<>>) >>,                             \* for y.a in z: pass
      << FunctionDef("x", {"y"}), Expr({"x"}) >>,                         \* def x(a=y): ... / x()
      << Assign(<<Name("x"), Name("y")>>, {}), Expr({"x", "y"}) >>,       \* x = y = 1; print(x, y)
      << Assign(<<Tuple(<<Name("x"), Name("y")>>)>>, {}) >>,              \* x, y = 1, 2
      << Assign(<<List(<<Name("x"), Name("y")>>)>>, {}) >>,               \* [x, y] = 1, 2
      << Assign(<<Subscript("y")>>, {"x"}), Expr({"y"}) >>,               \* y['k'] = x; print(y)
      << Assign(<<Attribute("y")>>, {"x"}) >>,                            \* y.attr = x
      << AugAssign(Subscript("y"), {"x"}) >>,                             \* y['k'] += x
      << AugAssign(Attribute("y"), {}) >>,                                \* y.attr += 1
      << Assign(<<Name("x")>>, {}), Assign(<<Name("y")>>, {"x"}), Expr({"y"}) >> }  \* x = 1; y = x; print(y)

KnownGlobals == {{}, {"x"}, {"y"}, {"x", "y"}}

\* --- actions --------------------------------------------------------------
nonCallVars == <<graphVars, safetyVars, last_exec, response, heapVars, stmts, pc,
                 orphaned_at_start, scopeVars>>

\* precheck(module_node, name_set): a new PreCheck with an empty safe_set
PrecheckCall(module_node, name_set) ==
    /\ precheck_call.status # "running"
    /\ precheck_call' = [status |-> "running", module_node |-> module_node, name_set |-> name_set,
                         visited |-> 0, safe_set |-> {}, check_set |-> {}]
    /\ UNCHANGED <<nonCallVars, target_call>>

\* the loop of PreCheck.__call__ takes the next top-level statement
PrecheckVisit ==
    /\ precheck_call.status = "running"
    /\ precheck_call' = precheck_node(precheck_call,
                                      precheck_call.module_node[precheck_call.visited + 1])
    /\ UNCHANGED <<nonCallVars, target_call>>

NextPrecheck ==
    \/ \E module_node \in PrecheckUnits, name_set \in KnownGlobals :
           PrecheckCall(module_node, name_set)
    \/ PrecheckVisit

SpecPrecheck == Init /\ [][NextPrecheck]_vars

\* --- what a unit's statements do when they run ----------------------------
\* the global names the statement has bound for certain once it has run: a
\* conditional block or a loop may not run its body, a class body binds
\* attributes of the class
DefinitelyBinds(node) ==
    CASE node.type \in {"Assign", "AugAssign"} ->
            UNION {IF node.targets[i].type \in {"Name", "Tuple", "List"}
                   THEN TargetNames(node.targets[i]) ELSE {} : i \in 1 .. Len(node.targets)}
      [] node.type \in {"FunctionDef", "ClassDef"} -> {node.name}
      [] OTHER -> {}

\* running the statement can read the global name n, given the names bound before it
RECURSIVE CanRead(_, _, _)
RECURSIVE BodyCanRead(_, _, _, _)
CanRead(node, n, bound) ==
    /\ n \notin bound
    /\ \/ n \in node.value
       \/ \E i \in 1 .. Len(node.targets) :
              /\ node.targets[i].type \in {"Subscript", "Attribute"}
              /\ node.targets[i].id = n
       \/ node.type = "AugAssign" /\ node.targets[1].id = n
       \/ /\ node.type \in {"If", "ClassDef"}
          /\ BodyCanRead(node.body, 1, n, bound)
       \/ /\ node.type = "For"
          /\ BodyCanRead(node.body, 1, n, bound \cup TargetNames(node.targets[1]))

BodyCanRead(body, i, n, bound) ==
    /\ i <= Len(body)
    /\ \/ CanRead(body[i], n, bound)
       \/ BodyCanRead(body, i + 1, n, bound \cup DefinitelyBinds(body[i]))

\* C33: precheck leaves a known-global name n out of the returned check_set
\* only if no statement of the unit can read n before the unit itself has
\* definitely bound n (so x = x + 1, x += 1 and a name bound only in a
\* conditional block or a class body put the name in check_set).
C33_OmittedOnlyIfBoundBeforeRead ==
    precheck_call.status = "returned" =>
        \A n \in precheck_call.name_set \ precheck_call.check_set :
            ~BodyCanRead(precheck_call.module_node, 1, n, {})

\* the target is a simple name or a tuple/list of simple names
SimpleTarget(target) ==
    \/ target.type = "Name"
    \/ /\ target.type \in {"Tuple", "List"}
       /\ \A i \in 1 .. Len(target.elts) : target.elts[i].type = "Name"

\* the top-level statement the loop of PreCheck.__call__ visited last
LastVisited == precheck_call.module_node[precheck_call.visited]

\* C34: precheck accepts an assignment whose targets are simple names or
\* tuples/lists of simple names without error and adds every such name to
\* safe_set; it reports the structural-inconsistency error only for a target
\* of another shape, a subscript target being silently ignored and not added.
C34_SimpleTargetsAccepted ==
    (precheck_call.visited >= 1 /\ LastVisited.type = "Assign") =>
        LET targets == LastVisited.targets
            other == {i \in 1 .. Len(targets) :
                          ~SimpleTarget(targets[i]) /\ targets[i].type # "Subscript"}
        IN /\ precheck_call.status = "raised" <=> other # {}
           /\ \A i \in 1 .. Len(targets) :
                  /\ (SimpleTarget(targets[i]) /\ other = {})
                         => TargetNames(targets[i]) \subseteq precheck_call.safe_set
                  /\ (targets[i].type = "Subscript" /\ Len(targets) = 1 /\ precheck_call.visited = 1)
                         => precheck_call.safe_set = {}

\* C35: the closure loop of check_and_link_multiple_cells terminates for
\* every batch and every assignment of direct refreshers, cyclic and
\* self-refreshing ones included, and the closed link sets do not depend on
\* the order in which the stale units are visited.
C35_ClosureIndependentOfOrder ==
    (Linked /\ highlights_enabled) =>
        LET direct == [c \in response.stale_cells |->
                           direct_refreshers(Graph, response.cells, c)]
        IN \A order \in StaleOrders(Graph, response.cells, TRUE) :
               closure_loop(direct, response.stale_cells, order) = response.closed

\* --- a session with refused units and a unit that does not parse ----------
OverrideSetup == <<"v = 1", "w = v", "u = w", "v = 2">>
OverrideFree == {"print(u)", "u = w", "v = (", "w = v"}

NextOverride ==
    \/ Submit(OverrideSetup, OverrideFree)
    \/ ChangeActiveCell(OverrideSetup, {"print(u)"})
    \/ SetHighlights(OverrideSetup)

SpecOverride == Init /\ [][NextOverride]_vars

\* C36: the staleness override is granted only when the immediately preceding
\* submission to safe_execute was the refused, byte-identical source; after
\* any other submission in between (passing, refused itself, or not parsing)
\* the first source is refused again while its live Symbols are stale.
C36_OverrideOnlyAfterImmediateRefusal ==
    (skip_unsafe_cells /\ last_exec.cell # NoCode) =>
        LET resubmission == last_exec.prev_refused /\ last_exec.prev_cell = last_exec.cell
        IN /\ last_exec.override => resubmission
           /\ (Parses(last_exec.cell) /\ last_exec.stale_live # {} /\ ~resubmission)
                  => last_exec.refused

\* --- a unit from its submission to its end --------------------------------
\* how far the unit is from its end: 0 when it has ended
StepsLeft(p, s) ==
    IF p = "idle" THEN 0 ELSE 2 * Len(s) + 1 + (IF p = "run" THEN 1 ELSE 0)

\* the Symbols the collector has to take out at the end of the unit
GarbageSymbols ==
    {key \in SymKeys : /\ dsym_obj_id[key] # NoObj
                       /\ key[1] # GlobalScope
                       /\ ns_is_garbage(Heap, key[1])}

\* what a step of a unit does to the counter, the recorded sources and the
\* heap; every step brings the unit nearer to its end, and while the unit has
\* not ended the statement that the next step runs or handles is there
UnitStep ==
    /\ (pc = "idle" /\ pc' = "run") =>
           /\ cell_content_by_counter'[cell_counter] = stmts'
           /\ cell_counter' = cell_counter
    /\ (pc = "run" /\ pc' = "end") =>
           UNCHANGED <<heapVars, cell_content_by_counter, cell_counter>>
    /\ (pc = "end" /\ pc' = "idle") =>
           /\ cell_counter' = cell_counter + 1
           /\ cell_content_by_counter' = cell_content_by_counter
           /\ \A key \in GarbageSymbols :
                  /\ dsym_obj_id'[key] = NoObj
                  /\ \A k \in ObjKeys : key \notin aliases'[k]
    /\ cell_counter' # cell_counter => (pc = "end" /\ pc' = "idle")
    /\ pc # "idle" => StepsLeft(pc', stmts') < StepsLeft(pc, stmts)
    /\ pc' \in {"run", "hook"} => stmts' # <<>>

\* C37: safe_execute records the unit's source under the current counter
\* before running it and ends every unit, one that raises included, with the
\* collector run and exactly one increment of the counter; what the partly
\* executed unit recorded or changed is not rolled back.
C37_UnitAlwaysFinished == [][UnitStep]_vars

\* the unit foo = 5; foo.a = 2 has ended: its second statement raised, its
\* first statement's binding is kept and the counter has moved on by one
C37_Witness ==
    /\ pc = "idle"
    /\ cell_counter > 1
    /\ cell_content_by_counter[cell_counter - 1] = <<"foo = 5", "foo.a = 2">>
    /\ user_global_ns["foo"] = IntObj
    /\ last_execution_counter = cell_counter - 1

\* ------------------------------------------------------------------------
\* In-place mutations: a list reached through two names, appended to in a
\* loop and shuffled by a library call.  A statement is named by its source
\* text: the same text twice in a unit is one node reached twice, as the body
\* of a loop is.
\* ------------------------------------------------------------------------
MutSetup == << <<"l = []", "foo = l">> >>
MutFree == { <<"l = []", "foo = l", "l.append(1)", "l.append(1)">>,
             <<"l = []", "foo = l", "l.append(1)", "l.append(1)", "foo = 5">>,
             <<"l = []", "l.append(1)">>,
             <<"random.shuffle(l, random.random)">>,
             <<"exec('l = []')", "random.shuffle(l, random.random)", "l.append(1)">>,
             <<"foo = 5">>,
             <<"l = 5", "l.append(1)">> }

NextMut ==
    \/ /\ cell_counter <= Len(MutSetup) + MaxFree
       /\ \E unit \in (IF InSetup(MutSetup) THEN {MutSetup[cell_counter]} ELSE MutFree) :
             StartUnit(unit)
    \/ RunStmt
    \/ finished_execution_hook
    \/ FinishUnit

SpecMut == Init /\ [][NextMut]_vars

\* the update_deps call a mutation makes on a Symbol
MutatedCall(key, deps) == [sym |-> key, deps |-> deps, overwrite |-> FALSE, mutated |-> TRUE]

\* the calls the events of a feed ask for, the alias sets read as they were
\* when the statement finished
CallsAskedFor(ms) ==
    UNION {IF ms[i].event = "arg_mutate"
           THEN {MutatedCall(key, {}) : key \in ms[i].arg_dsyms \ {NoneDsym}}
           ELSE {MutatedCall(key, ms[i].arg_dsyms) : key \in aliases[ms[i].obj_id]}
           : i \in 1 .. Len(ms)}

\* a statement finishes and its dependencies are handled
HandlingStep == pc = "hook" /\ pc' # "hook" /\ Head(stmts) \notin seen_stmts

MutationStep ==
    HandlingStep =>
        /\ mutation_update_deps' = CallsAskedFor(mutations)
        /\ \A call \in mutation_update_deps' :
              /\ call.sym \in defined_this_cell'
              /\ call.deps \ {NoneDsym} \subseteq dsym_parents'[call.sym] \cup {call.sym}

\* C38: when a statement finishes with a recorded mutation of an object other
\* than an argument mutation, update_deps(mutated = true, overwrite = false) is
\* applied to every Symbol of the alias set of that object's identity, with
\* the event's argument symbols; for an argument mutation it is applied to
\* each argument Symbol that is not None, with an empty dependency set.
C38_MutationReachesEveryAlias == [][MutationStep]_vars

C38_Witness ==
    /\ user_global_ns["foo"] = user_global_ns["l"]
    /\ user_global_ns["l"] \in Objs
    /\ aliases[user_global_ns["l"]] = {<<GlobalScope, "l">>, <<GlobalScope, "foo">>}
    /\ mutation_update_deps = {MutatedCall(<<GlobalScope, "l">>, {}), MutatedCall(<<GlobalScope, "foo">>, {})}
    /\ "l.append(1)" \in seen_stmts

\* one firing of finished_execution_hook
HookFiring ==
    (pc = "hook" /\ pc' # "hook") =>
        IF Head(stmts) \in seen_stmts
        THEN UNCHANGED heapVars
        ELSE /\ seen_stmts' = seen_stmts \cup {Head(stmts)}
             \* the whole feed was handled, against the alias sets as they
             \* were before the statement's own store, and then emptied
             /\ mutation_update_deps' = CallsAskedFor(mutations)
             /\ make_lval_data_symbols_obj(Heap, Head(stmts)).oid # Heap.oid
                   => dsym_obj_id' # dsym_obj_id
             /\ mutations' = <<>>
             \* the pending set is drained last
             /\ garbage_namespace_obj_ids' = {}

\* the seen set grows by the node being handled, and is emptied with the feed
\* when the unit ends
SeenWithinUnit ==
    /\ seen_stmts' # seen_stmts => (HandlingStep \/ (pc = "end" /\ pc' = "idle"))
    /\ pc' = "idle" => (seen_stmts' = {} /\ mutations' = <<>>)

\* C39: within one unit, the dependencies of a statement node are handled at
\* most once, however often finished_execution_hook fires for it: a firing
\* for a node already seen changes nothing.  When they are handled, the node
\* is marked seen, the recorded mutations are handled before the statement's
\* store, the per-statement trace state is then reset and the pending
\* namespace set is drained.
C39_HandledOncePerNode == [][HookFiring /\ SeenWithinUnit]_vars

C39_Witness ==
    /\ pc = "end"
    /\ "l.append(1)" \in seen_stmts
    /\ Len(mutations) = 1
    /\ Cardinality(obj_dict[user_global_ns["l"]]) = 2
    /\ dsym_obj_id[<<namespaces_by_id[user_global_ns["l"]], "[0]">>] = IntObj
    /\ dsym_obj_id[<<namespaces_by_id[user_global_ns["l"]], "[1]">>] = NoObj

\* ------------------------------------------------------------------------
\* The targets of a store or delete statement.  Each target is handed to the
\* tracer's resolve_store_or_del_data_for_target, which returns the scope and
\* name to act on or fails: an unsupported target shape is a KeyError (the
\* saved store data has no entry for the node), a missing attribute an
\* AttributeError, a missing index an IndexError or a KeyError
\* (retrieve_namespace_attr_or_sub re-raises the three).  A call records, per
\* target, whether a Symbol was upserted or deleted for it.
\* ------------------------------------------------------------------------
MaxTargets == 3
Exceptions == {"KeyError", "AttributeError", "IndexError"}
ResolveOutcomes == {"resolved"} \cup Exceptions
TargetHandlers == {"_handle_assign", "_handle_delete", "_make_lval_data_symbols_old"}
TargetOutcomes == UNION {[1 .. n -> ResolveOutcomes] : n \in 1 .. MaxTargets}

\* the exception leaves the handler and reaches its caller
RaiseToCaller(c, i, exc) == [c EXCEPT !.handled = i, !.status = "raised", !.raised = exc]

\* TraceStatement._handle_assign_target_for_deps for target i of
\* _handle_assign's loop: `except KeyError: return`, then the upsert
handle_assign_target(c, i) ==
    IF c.outcomes[i] = "KeyError" THEN [c EXCEPT !.handled = i]
    ELSE IF c.outcomes[i] # "resolved" THEN RaiseToCaller(c, i, c.outcomes[i])
    ELSE [c EXCEPT !.handled = i, !.touched = @ \cup {i}]

\* TraceStatement._handle_delete, the body of the loop for target i: the
\* resolution and the deletion are inside `try ... except KeyError`
handle_delete_target(c, i) ==
    IF c.outcomes[i] = "KeyError" THEN [c EXCEPT !.handled = i]
    ELSE IF c.outcomes[i] # "resolved" THEN RaiseToCaller(c, i, c.outcomes[i])
    ELSE [c EXCEPT !.handled = i, !.touched = @ \cup {i}]

\* TraceStatement._make_lval_data_symbols_old, the body of the loop for edge
\* i: `except KeyError` and `except Exception` both log and go on
make_lval_target(c, i) ==
    IF c.outcomes[i] # "resolved" THEN [c EXCEPT !.handled = i]
    ELSE [c EXCEPT !.handled = i, !.touched = @ \cup {i}]

\* one iteration of the handler's loop over the targets; the handler returns
\* after the last one
handle_target(c) ==
    LET i == c.handled + 1
        c1 == CASE c.handler = "_handle_assign" -> handle_assign_target(c, i)
                [] c.handler = "_handle_delete" -> handle_delete_target(c, i)
                [] OTHER -> make_lval_target(c, i)
    IN IF c1.status = "running" /\ c1.handled = Len(c1.outcomes)
       THEN [c1 EXCEPT !.status = "returned"]
       ELSE c1

\* handle_dependencies calls the handler of the statement's targets
TargetsCall(handler, outcomes) ==
    /\ target_call.status # "running"
    /\ target_call' = [status |-> "running", handler |-> handler, outcomes |-> outcomes,
                       handled |-> 0, touched |-> {}, raised |-> "none"]
    /\ UNCHANGED <<nonCallVars, precheck_call>>

HandleTarget ==
    /\ target_call.status = "running"
    /\ target_call' = handle_target(target_call)
    /\ UNCHANGED <<nonCallVars, precheck_call>>

NextTargets ==
    \/ \E handler \in TargetHandlers, outcomes \in TargetOutcomes : TargetsCall(handler, outcomes)
    \/ HandleTarget

SpecTargets == Init /\ [][NextTargets]_vars

\* C40: when the resolution of a store or delete target fails, the handling of
\* that target stops without raising to the caller and without creating,
\* updating or deleting a Symbol for it, and the remaining targets of the
\* statement are still handled.
C40_ResolutionMissRecoveredLocally ==
    /\ target_call.raised = "none"
    /\ \A i \in 1 .. target_call.handled :
          target_call.outcomes[i] # "resolved" => i \notin target_call.touched
    /\ target_call.status = "returned" =>
          target_call.touched = {i \in 1 .. Len(target_call.outcomes) : target_call.outcomes[i] = "resolved"}

=============================================================================
